---- MODULE Spec2Model ----
(***************************************************************************)
(* Model of the glacier mass-balance simulator of src/glacierModel.js:     *)
(* degreeDayMelt, snowpackBucket (the callback of series.map, one step per *)
(* day) and processGlacier.                                                *)
(*                                                                         *)
(* Numbers.  Temperatures, precipitation, melt and snow water equivalent   *)
(* are fixed-point integers in units of 1/10000 (degC or mm), the smallest *)
(* unit in which LAPSE_RATE = -0.0065 degC/m times a whole number of       *)
(* metres is exact: 0.5 degC is 5000, 20 mm is 200000.  Elevations are     *)
(* whole metres.  The arithmetic is exact; the rounding of IEEE doubles is *)
(* not modelled.                                                           *)
(*                                                                         *)
(* Nullable values.  A field that may be null or absent is a sequence of   *)
(* length at most one: Null is << >>, Some(v) is <<v>>.  TLC compares a    *)
(* number only with numbers, so the number NaN is the integer NaN below,   *)
(* outside the range of every other value, and a day whose T is absent is  *)
(* a record without the field T; a day whose T is null has the field Tnull *)
(* instead.  A series element that is not an object (null) is << >>.       *)
(*                                                                         *)
(* The second half models the reducers of Frost responses (reduceLatest,   *)
(* toSeries, sumPrecipitationHourly) and the two handlers that use them:   *)
(* GET /api/observations/:stationId of src/unnamed/part_000 and            *)
(* GET /api/history/:stationId of src/unnamed/part_004.  A time string is  *)
(* a record [inst, form]: new Date(time) reads inst, while the string      *)
(* itself (what a Set of strings compares) is the whole record, so that    *)
(* two spellings of one instant are two strings.                           *)
(***************************************************************************)
EXTENDS Integers, Sequences, FiniteSets

VARIABLES
  series,     \* argument: the daily series, a sequence of [date, T, P]
  zGlacier,   \* argument: glacier elevation, m
  zStation,   \* argument: station elevation, m
  glacierId,  \* argument
  glacName,   \* argument, "" when empty or absent
  pc,         \* "map": inside series.map; "done": returned; "threw": threw
  swe,        \* the accumulator `swe` of snowpackBucket
  mapped,     \* the days series.map has emitted so far
  result,     \* Null until processGlacier returns, then Some(result object)
  \* overlapping calls of processGlacier
  calls,      \* per call: its arguments, position, emitted days and result
  cells,      \* the accumulators `let swe` that exist, by cell
  \* a reducer applied to one Frost response
  rFrost,     \* the response body handed to the reducer
  rOut,       \* Null until the reducer ends, then Some([fn, threw, value])
  \* GET /api/observations/:stationId
  oNow,       \* the clock, in hours since the epoch
  oStation,   \* what the upstream holds: hourly readings and a daily value
  oFrost,     \* the response to the 24-hour request, once fetched
  oLatest,    \* the handler's `latest`
  oPc,        \* "main", "p1d", then "daily", "hourlySum" or "caught"
  oReply,     \* Null until res.json, then Some(body)
  \* GET /api/history/:stationId
  hChunks,    \* the upstream's response to each interval's request
  hPending,   \* the intervals whose request has not completed
  hMerged,    \* the handler's `merged`
  hPc,        \* "chunks", then "done" or "failed"
  hReply,     \* Null until the response, then Some([status, series])
  hCache,     \* the cache entry of this request
  \* getCache / setCache
  cClock,    \* Date.now(), ms
  cMap,      \* the Map `cache`: per key Null or Some([t, ttlMs, data])
  cLastSet,  \* per key the latest setCache call: Null or Some([t, ttlSec, data])
  cGot,      \* the value getCache has just returned: Null or Some([key, value])
  \* frostJson
  fResp,     \* the upstream's answer to the request: [status, body]; status 0 is no answer at all
  fOut,      \* Null until frostJson settles, then Some([fn, threw, ...])
  \* fetches with a widening window
  wKind,     \* which code runs: "observations" (part_001), "observations24" (server.js) or "batch" (fetchLatestBatch of part_001)
  wUpstream, \* the answers of the upstream to the narrow and the wide request, once arrived
  wRequests, \* the requests made so far: a sequence of [hours, threw]
  wLatest,   \* latest / latestByStation
  wPc,       \* "narrow", "wide", then "done" or "caught"
  wSent,     \* the responses sent (res.json calls) or values returned
  wOut,      \* Null, then Some of the response or of the returned value
  \* GET /api/stations of server.js
  sStations, \* the upstream station list: Null when its fetch fails, else Some(sequence of stations)
  sAnswers,  \* how the upstream answers the request of each batch
  sCached,   \* the cache entry of "stations-with-latest-temp": Null or Some(data)
  sPc,       \* "arrive", "list", "batch", then "done" or "failed"
  sI,        \* the loop index i
  sAllLatest, \* allLatest
  sRequests, \* the id lists of the batch requests sent so far
  sOut,      \* Null, then Some([status, body])
  \* nveObservations of server.js
  nIds,      \* stationIds: Null when missing, else Some(sequence of ids)
  nVia,      \* "route" for GET /api/nve/observations, "call" for a direct call
  nAnswers,  \* how the upstream answers each request
  nPc,       \* "call", "get", "post", then "returned", "threw" or "rejected"
  nChunks,   \* chunks
  nRequests, \* the requests sent so far: [method, ids]
  nAllData,  \* allData
  nOut,      \* Null, then Some(result) or Some([status, body])
  \* client module
  controller, \* the module variable controller: Null or Some(call whose AbortController it is)
  stationCache, \* the module variable stationCache: Null or Some(data)
  kKind,     \* per call: "fetchStations" or "other" (another function that calls api)
  kPc,       \* per call: "new", "fetch", "text", "json", then how it settled
  kAborted,  \* the calls whose AbortController was aborted
  kCut,      \* the calls that were not settled when their controller was aborted
  kData,     \* per call: Null, or Some(body of its response)
  kStored,   \* the calls that assigned stationCache
  \* cached station routes
  qClock,    \* Date.now(), in ms
  qCache,    \* the cache: per key Null or Some([t, ttlMs, data])
  qRoute,    \* per request the route it asks
  qPc,       \* per process: "new" or "idle", "loading", "reread", "done"
  qLoad,     \* per process the outcome of its load: "none", "ok", "failed"
  qAsked,    \* the requests that sent an upstream request
  qSent      \* per request Null, then Some([status, body, from])

glacierVars == <<series, zGlacier, zStation, glacierId, glacName, pc, swe, mapped, result>>
concVars == <<calls, cells>>
reduceVars == <<rFrost, rOut>>
obsVars == <<oNow, oStation, oFrost, oLatest, oPc, oReply>>
histVars == <<hChunks, hPending, hMerged, hPc, hReply, hCache>>

glacierIdle ==
  /\ series = << >> /\ zGlacier = 0 /\ zStation = 0 /\ glacierId = "" /\ glacName = ""
  /\ pc = "idle" /\ swe = 0 /\ mapped = << >> /\ result = << >>

concIdle == calls = << >> /\ cells = << >>
reduceIdle == rFrost = << >> /\ rOut = << >>
obsIdle ==
  /\ oNow = 0 /\ oStation = << >> /\ oFrost = << >> /\ oLatest = << >>
  /\ oPc = "idle" /\ oReply = << >>
histIdle ==
  /\ hChunks = << >> /\ hPending = {} /\ hMerged = << >> /\ hPc = "idle"
  /\ hReply = << >> /\ hCache = << >>

cacheVars == <<cClock, cMap, cLastSet, cGot>>
cacheIdle ==
  cClock = 0 /\ cMap = << >> /\ cLastSet = << >> /\ cGot = << >>
fetchVars == <<fResp, fOut>>
fetchIdle ==
  fResp = << >> /\ fOut = << >>
widenVars == <<wKind, wUpstream, wRequests, wLatest, wPc, wSent, wOut>>
widenIdle ==
  /\ wKind = "" /\ wUpstream = << >> /\ wRequests = << >> /\ wLatest = << >>
  /\ wPc = "idle" /\ wSent = 0 /\ wOut = << >>
stationsVars == <<sStations, sAnswers, sCached, sPc, sI, sAllLatest, sRequests, sOut>>
stationsIdle ==
  /\ sStations = << >> /\ sAnswers = << >> /\ sCached = << >> /\ sPc = "idle" /\ sI = 0
  /\ sAllLatest = << >> /\ sRequests = << >> /\ sOut = << >>
nveVars == <<nIds, nVia, nAnswers, nPc, nChunks, nRequests, nAllData, nOut>>
nveIdle ==
  /\ nIds = << >> /\ nVia = "idle" /\ nAnswers = << >> /\ nPc = "idle" /\ nChunks = << >>
  /\ nRequests = << >> /\ nAllData = << >> /\ nOut = << >>
clientVars == <<controller, stationCache, kKind, kPc, kAborted, kCut, kData, kStored>>
clientIdle ==
  /\ controller = << >> /\ stationCache = << >> /\ kKind = << >> /\ kPc = << >>
  /\ kAborted = {} /\ kCut = {} /\ kData = << >> /\ kStored = {}
routesVars == <<qClock, qCache, qRoute, qPc, qLoad, qAsked, qSent>>
routesIdle ==
  /\ qClock = 0 /\ qCache = << >> /\ qRoute = << >> /\ qPc = << >> /\ qLoad = << >>
  /\ qAsked = {} /\ qSent = << >>

serverVars == <<cacheVars, fetchVars, widenVars, stationsVars, nveVars, clientVars, routesVars>>
serverIdle == cacheIdle /\ fetchIdle /\ widenIdle /\ stationsIdle /\ nveIdle /\ clientIdle /\ routesIdle

\* The variables of the first five specifications.
coreVars == <<glacierVars, concVars, reduceVars, obsVars, histVars>>
coreIdle == glacierIdle /\ concIdle /\ reduceIdle /\ obsIdle /\ histIdle

\* The frame of each of the other specifications: every variable but its own.
cacheFrame == <<coreVars, fetchVars, widenVars, stationsVars, nveVars, clientVars, routesVars>>
cacheRest == coreIdle /\ fetchIdle /\ widenIdle /\ stationsIdle /\ nveIdle /\ clientIdle /\ routesIdle
fetchFrame == <<coreVars, cacheVars, widenVars, stationsVars, nveVars, clientVars, routesVars>>
fetchRest == coreIdle /\ cacheIdle /\ widenIdle /\ stationsIdle /\ nveIdle /\ clientIdle /\ routesIdle
widenFrame == <<coreVars, cacheVars, fetchVars, stationsVars, nveVars, clientVars, routesVars>>
widenRest == coreIdle /\ cacheIdle /\ fetchIdle /\ stationsIdle /\ nveIdle /\ clientIdle /\ routesIdle
stationsFrame == <<coreVars, cacheVars, fetchVars, widenVars, nveVars, clientVars, routesVars>>
stationsRest == coreIdle /\ cacheIdle /\ fetchIdle /\ widenIdle /\ nveIdle /\ clientIdle /\ routesIdle
nveFrame == <<coreVars, cacheVars, fetchVars, widenVars, stationsVars, clientVars, routesVars>>
nveRest == coreIdle /\ cacheIdle /\ fetchIdle /\ widenIdle /\ stationsIdle /\ clientIdle /\ routesIdle
clientFrame == <<coreVars, cacheVars, fetchVars, widenVars, stationsVars, nveVars, routesVars>>
clientRest == coreIdle /\ cacheIdle /\ fetchIdle /\ widenIdle /\ stationsIdle /\ nveIdle /\ routesIdle
routesFrame == <<coreVars, cacheVars, fetchVars, widenVars, stationsVars, nveVars, clientVars>>
routesRest == coreIdle /\ cacheIdle /\ fetchIdle /\ widenIdle /\ stationsIdle /\ nveIdle /\ clientIdle

vars == <<glacierVars, concVars, reduceVars, obsVars, histVars, serverVars>>

\* The variables of the other specifications, for the steps of one call.
notGlacier == <<concVars, reduceVars, obsVars, histVars, serverVars>>
NotGlacierIdle == concIdle /\ reduceIdle /\ obsIdle /\ histIdle /\ serverIdle

----------------------------------------------------------------------------
(* Nullable values *)

Null == << >>
Some(v) == <<v>>
IsNull(x) == x = Null
Val(x) == x[1]

Max(a, b) == IF a >= b THEN a ELSE b

\* The number NaN (undefined + x, and every operation on NaN).
NaN == -2000000000

----------------------------------------------------------------------------
(* Constants of glacierModel.js, in 1/10000 units where they are decimal *)

LAPSE_RATE == -65
T0 == 0
DDF_SNOW == 3
DDF_ICE == 7
TS_SNOW == 5000
ROS_P_MIN == 50000
SWE_MIN == 200000
HISTORY_DAYS == 14

----------------------------------------------------------------------------
(* Bounds of the checked inputs *)

MaxLen == 2      \* series of every combination of day values: up to MaxLen days
MaxLong == 15    \* series of uniform day values: up to MaxLong days
MaxLoose == 2    \* series with null or absent T and P, or null elements

\* Station temperatures: 0, 0.2, 0.5, 2 and 3 degC
TValues == {0, 2000, 5000, 20000, 30000}
\* Precipitation: absent, -1, 0, 5 and 29 mm
PValues == {Null, Some(-10000), Some(0), Some(50000), Some(290000)}
Elevations == {500, 1500}
GlacNames == {"", "Storbreen"}
GlacierIds == {"2289", "675"}

\* Short series: every combination of values, dates 1..n in order.
ShortSeries ==
  UNION { { [i \in 1..n |-> [date |-> i, T |-> tp[i][1], P |-> tp[i][2]]] :
              tp \in [1..n -> TValues \X PValues] } : n \in 0..MaxLen }

\* Date patterns of a series of n days: in order; day j repeating the date of
\* day j-1; days j-1 and j exchanged.
DatePatterns(n) ==
  { [i \in 1..n |-> i] }
    \cup { [i \in 1..n |-> IF i = j THEN j - 1 ELSE i] : j \in 2..n }
    \cup { [i \in 1..n |-> IF i = j THEN j - 1 ELSE IF i = j - 1 THEN j ELSE i] :
             j \in 2..n }

\* Long series: the same values every day, every date pattern.
LongSeries ==
  UNION { { [i \in 1..n |-> [date |-> dates[i], T |-> t, P |-> Some(50000)]] :
              dates \in DatePatterns(n), t \in {0, 30000} } : n \in 1..MaxLong }

\* Loose series: elements that are not objects, days without T, days with a
\* null T, days with and without P; the dates have gaps.
LooseElements ==
  { Null }
    \cup { [date |-> 0, P |-> p] : p \in {Null, Some(50000)} }
    \cup { [date |-> 0, Tnull |-> TRUE, P |-> p] : p \in {Null, Some(50000)} }
    \cup { [date |-> 0, T |-> t, P |-> p] : t \in {0, 30000}, p \in {Null, Some(50000)} }

AtDate(e, day) == IF DOMAIN e = {} THEN e ELSE [e EXCEPT !.date = day]

LooseSeries ==
  UNION { { [i \in 1..n |-> AtDate(es[i], 3 * i)] : es \in [1..n -> LooseElements] } :
            n \in 0..MaxLoose }

----------------------------------------------------------------------------
(* glacierModel.js *)

\* Mutant: the two degree-day factors exchanged.
degreeDayMelt_SwappedFactors(T, snowCover) ==
  LET ddf == IF snowCover THEN DDF_ICE ELSE DDF_SNOW
  IN  Max(T - T0, 0) * ddf

\* Mutant: Math.max dropped, so a temperature below T0 gives a negative melt.
degreeDayMelt_NoClamp(T, snowCover) ==
  LET ddf == IF snowCover THEN DDF_SNOW ELSE DDF_ICE
  IN  (T - T0) * ddf

\* function degreeDayMelt(T, snowCover = true)
degreeDayMelt(T, snowCover) ==
  LET ddf == IF snowCover THEN DDF_SNOW ELSE DDF_ICE
  IN  Max(T - T0, 0) * ddf

\* Mutant: dz taken as zStation - zGlacier.
Tcorrected_ReversedDz(T, zG, zS) == T + LAPSE_RATE * (zS - zG)

\* const Tcorr = d.T + LAPSE_RATE * dz, dz = zGlacier - zStation
Tcorrected(T, zG, zS) == T + LAPSE_RATE * (zG - zS)

\* d.T as the operand of +: undefined gives NaN, null counts as 0
StationT(d) ==
  IF "T" \in DOMAIN d THEN d.T
  ELSE IF "Tnull" \in DOMAIN d THEN 0
  ELSE NaN

\* Tcorr, NaN when d.T is
TcorrOf(d, zG, zS) ==
  LET T == StationT(d)
  IN  IF T = NaN THEN NaN ELSE Tcorrected(T, zG, zS)

\* Mutant: a day without T makes the callback throw.
CallbackThrows_OnMissingT(d) == DOMAIN d = {} \/ "T" \notin DOMAIN d

\* Reading d.T throws a TypeError when d is null or undefined.
CallbackThrows(d) == DOMAIN d = {}

\* const P = d.P || 0 : null, undefined and 0 give 0
PrecipOf(d) == IF IsNull(d.P) THEN 0 ELSE Val(d.P)

\* Mutant: the melt is subtracted on snowfall days too.
BucketUpdate_MeltsEveryDay(s, Tcorr, P) ==
  LET melt == degreeDayMelt(Tcorr, TRUE)
  IN  IF Tcorr < TS_SNOW THEN Max(s + P - melt, 0) ELSE Max(s - melt, 0)

\* Mutant: the floor Math.max(.., 0) of the melt branch dropped.
BucketUpdate_NoFloor(s, Tcorr, P) ==
  IF Tcorr < TS_SNOW
    THEN s + P
    ELSE s - degreeDayMelt(Tcorr, TRUE)

\* Mutant: snowfall only below T0 instead of below TS_SNOW.
BucketUpdate_SnowBelowT0(s, Tcorr, P) ==
  IF Tcorr < T0
    THEN s + P
    ELSE LET melt == degreeDayMelt(Tcorr, TRUE)
         IN  Max(s - melt, 0)

\* the if/else of the map callback: the accumulator after the day's update
BucketUpdate(s, Tcorr, P) ==
  IF Tcorr < TS_SNOW
    THEN s + P
    ELSE LET melt == degreeDayMelt(Tcorr, TRUE)
         IN  Max(s - melt, 0)

\* the accumulator after the day's update: swe + P, swe - melt and Math.max
\* are NaN as soon as swe or Tcorr is, and NaN < TS_SNOW is false
SweAfter(s, Tcorr, P) ==
  IF Tcorr = NaN \/ s = NaN THEN NaN ELSE BucketUpdate(s, Tcorr, P)

\* const Melt = degreeDayMelt(Tcorr, true) : Math.max(NaN, 0) is NaN
MeltOf(Tcorr) == IF Tcorr = NaN THEN NaN ELSE degreeDayMelt(Tcorr, TRUE)

\* Mutant: the snowpack minimum compared with >= instead of >.
RainOnSnow_Inclusive(Tcorr, P, s) == Tcorr > TS_SNOW /\ P > ROS_P_MIN /\ s >= SWE_MIN

\* const ROS = Tcorr > TS_SNOW && P > ROS_P_MIN && swe > SWE_MIN
RainOnSnow(Tcorr, P, s) == Tcorr > TS_SNOW /\ P > ROS_P_MIN /\ s > SWE_MIN

\* ROS: every comparison with NaN is false
RosOf(Tcorr, P, s) ==
  IF Tcorr = NaN \/ s = NaN THEN FALSE ELSE RainOnSnow(Tcorr, P, s)

\* return { ...d, T: Tcorr, Melt, SWE: swe, ROS } : date and P are copied from d
EmittedDay(d, Tcorr, s) ==
  [date |-> d.date, T |-> Tcorr, P |-> d.P,
   Melt |-> MeltOf(Tcorr),
   SWE |-> Some(s),
   ROS |-> Some(RosOf(Tcorr, PrecipOf(d), s))]

\* Mutant: the last 14 days listed newest first.
SliceLast_NewestFirst(h) ==
  LET n == IF Len(h) <= HISTORY_DAYS THEN Len(h) ELSE HISTORY_DAYS
  IN  [i \in 1..n |-> h[Len(h) - i + 1]]

\* Mutant: the first 14 days kept instead of the last 14.
SliceLast_FirstDays(h) ==
  IF Len(h) <= HISTORY_DAYS THEN h ELSE SubSeq(h, 1, HISTORY_DAYS)

\* history.slice(-14)
SliceLast(h) ==
  IF Len(h) <= HISTORY_DAYS THEN h
  ELSE SubSeq(h, Len(h) - HISTORY_DAYS + 1, Len(h))

\* history[history.length - 1] || null
LastOrNull(h) == IF Len(h) = 0 THEN Null ELSE Some(h[Len(h)])

\* Mutant: glacierId || glacName.
NameOrId_IdFirst(name, id) == IF id = "" THEN name ELSE id

\* glacName || glacierId
NameOrId(name, id) == IF name = "" THEN id ELSE name

\* Mutant: the tier degraded when no day has a truthy P (0 is falsy).
GlacierResult_FalsyPrecip(id, name, h) ==
  [glacier_id |-> id,
   glacier_name |-> NameOrId(name, id),
   today |-> LastOrNull(h),
   history |-> SliceLast(h),
   dataQuality |-> IF \E i \in 1..Len(h) : ~IsNull(h[i].P) /\ Val(h[i].P) # 0
                     THEN "full" ELSE "temp-only"]

\* the object processGlacier returns
GlacierResult(id, name, h) ==
  [glacier_id |-> id,
   glacier_name |-> NameOrId(name, id),
   today |-> LastOrNull(h),
   history |-> SliceLast(h),
   dataQuality |-> "full"]

----------------------------------------------------------------------------
(* The state machine: one call of processGlacier *)

InitShort ==
  /\ series \in ShortSeries
  /\ zGlacier \in Elevations
  /\ zStation \in Elevations
  /\ glacName = "Storbreen"
  /\ glacierId = "2289"

InitLong ==
  /\ series \in LongSeries
  /\ zStation \in Elevations
  /\ zGlacier = zStation
  /\ glacName \in GlacNames
  /\ glacierId \in GlacierIds

Init ==
  /\ InitShort \/ InitLong
  /\ pc = "map"
  /\ swe = 0
  /\ mapped = << >>
  /\ result = Null
  /\ NotGlacierIdle

\* Mutant: the callback writes its results into the input day (Object.assign(d, ..)).
MapDay_InPlace ==
  /\ pc = "map"
  /\ Len(mapped) < Len(series)
  /\ LET i == Len(mapped) + 1
         d == series[i]
         Tcorr == TcorrOf(d, zGlacier, zStation)
         s == SweAfter(swe, Tcorr, PrecipOf(d))
     IN  /\ ~CallbackThrows(d)
         /\ swe' = s
         /\ series' = [series EXCEPT ![i] = EmittedDay(d, Tcorr, s)]
         /\ mapped' = Append(mapped, EmittedDay(d, Tcorr, s))
  /\ UNCHANGED <<zGlacier, zStation, glacierId, glacName, pc, result, notGlacier>>

\* One call of the map callback of snowpackBucket, on the next day of series.
MapDay ==
  /\ pc = "map"
  /\ Len(mapped) < Len(series)
  /\ LET d == series[Len(mapped) + 1]
         Tcorr == TcorrOf(d, zGlacier, zStation)
         s == SweAfter(swe, Tcorr, PrecipOf(d))
     IN  /\ ~CallbackThrows(d)
         /\ swe' = s
         /\ mapped' = Append(mapped, EmittedDay(d, Tcorr, s))
  /\ UNCHANGED <<series, zGlacier, zStation, glacierId, glacName, pc, result, notGlacier>>

\* series.map is finished: snowpackBucket returns, processGlacier builds its result.
Return ==
  /\ pc = "map"
  /\ Len(mapped) = Len(series)
  /\ result' = Some(GlacierResult(glacierId, glacName, mapped))
  /\ pc' = "done"
  /\ UNCHANGED <<series, zGlacier, zStation, glacierId, glacName, swe, mapped, notGlacier>>

Next == MapDay \/ Return

Spec == Init /\ [][Next]_vars

----------------------------------------------------------------------------
(* The same call on loose input: the callback may throw *)

InitLoose ==
  /\ series \in LooseSeries
  /\ zGlacier \in Elevations
  /\ zStation \in Elevations
  /\ glacName = "Storbreen"
  /\ glacierId = "2289"
  /\ pc = "map"
  /\ swe = 0
  /\ mapped = << >>
  /\ result = Null
  /\ NotGlacierIdle

\* The callback throws on the next element: the exception leaves series.map,
\* snowpackBucket and processGlacier, which has no try/catch.
MapThrow ==
  /\ pc = "map"
  /\ Len(mapped) < Len(series)
  /\ CallbackThrows(series[Len(mapped) + 1])
  /\ pc' = "threw"
  /\ UNCHANGED <<series, zGlacier, zStation, glacierId, glacName, swe, mapped, result, notGlacier>>

NextLoose == MapDay \/ MapThrow \/ Return

SpecLoose == InitLoose /\ [][NextLoose]_vars

----------------------------------------------------------------------------
(* Overlapping calls of processGlacier.  A call is at "idle" (not yet      *)
(* entered), "map" (inside series.map) or "done".  The steps of different  *)
(* calls interleave freely, day by day: more than a single JavaScript      *)
(* thread allows, where a call runs to completion.                         *)

NumCalls == 2    \* overlapping calls
MaxConcLen == 2  \* days per series of an overlapping call

\* 5 mm of snow at 0 degC, or 0.5 mm at 3 degC (9 mm of melt)
ConcDays == { [T |-> 0, P |-> Some(50000)], [T |-> 30000, P |-> Some(5000)] }

ConcSeries ==
  UNION { { [i \in 1..n |-> [date |-> i, T |-> ds[i].T, P |-> ds[i].P]] :
              ds \in [1..n -> ConcDays] } : n \in 0..MaxConcLen }

Callers == 1..NumCalls

\* Mutant: one module-level `let swe` shared by every call.
CellOf_ModuleLevel(c) == 1

\* `let swe = 0.0` is a local of snowpackBucket: each call has its own.
CellOf(c) == c

InitConc ==
  /\ calls \in [Callers -> { [series |-> ser, zGlacier |-> 500, zStation |-> 500,
                              pc |-> "idle", mapped |-> << >>, result |-> Null] :
                              ser \in ConcSeries }]
  /\ cells = [k \in Callers |-> 0]
  /\ glacierIdle /\ reduceIdle /\ obsIdle /\ histIdle /\ serverIdle

\* Call c enters snowpackBucket: let swe = 0.0.
CallEnter(c) ==
  /\ calls[c].pc = "idle"
  /\ cells' = [cells EXCEPT ![CellOf(c)] = 0]
  /\ calls' = [calls EXCEPT ![c].pc = "map"]
  /\ UNCHANGED <<glacierVars, reduceVars, obsVars, histVars, serverVars>>

\* One call of the map callback in call c.
CallMapDay(c) ==
  /\ calls[c].pc = "map"
  /\ Len(calls[c].mapped) < Len(calls[c].series)
  /\ LET d == calls[c].series[Len(calls[c].mapped) + 1]
         Tcorr == TcorrOf(d, calls[c].zGlacier, calls[c].zStation)
         s == SweAfter(cells[CellOf(c)], Tcorr, PrecipOf(d))
     IN  /\ cells' = [cells EXCEPT ![CellOf(c)] = s]
         /\ calls' = [calls EXCEPT ![c].mapped = Append(@, EmittedDay(d, Tcorr, s))]
  /\ UNCHANGED <<glacierVars, reduceVars, obsVars, histVars, serverVars>>

\* Call c returns its result.
CallReturn(c) ==
  /\ calls[c].pc = "map"
  /\ Len(calls[c].mapped) = Len(calls[c].series)
  /\ calls' = [calls EXCEPT ![c].pc = "done",
                            ![c].result = Some(GlacierResult("2289", "", calls[c].mapped))]
  /\ UNCHANGED <<cells, glacierVars, reduceVars, obsVars, histVars, serverVars>>

NextConc == \E c \in Callers : CallEnter(c) \/ CallMapDay(c) \/ CallReturn(c)

SpecConc == InitConc /\ [][NextConc]_vars

----------------------------------------------------------------------------
(* Frost responses and their reducers (src/server.js, src/unnamed/part_000 *)
(* and part_004).  A response is Null or Some([data]); data is Null or     *)
(* Some(rows); a row is << >> (null) or [referenceTime, observations];     *)
(* observations is Null or Some(obs); an observation is << >> (null) or    *)
(* [elementId, value, unit, time], with value and time nullable.           *)

AIR == "air_temperature"
WIND == "wind_speed"
PT1H == "sum(precipitation_amount PT1H)"
P1D == "sum(precipitation_amount P1D)"
ElementIds == {AIR, WIND, PT1H, P1D}

\* The time string that spells instant inst in the given form.
TimeStr(inst, form) == Some([inst |-> inst, form |-> form])

\* new Date(time).getTime(): NaN for an absent time.
Parse(time) == IF IsNull(time) THEN NaN ELSE Val(time).inst

\* new Date(a) > new Date(b): false when either is an Invalid Date.
DateLater(a, b) == Parse(a) # NaN /\ Parse(b) # NaN /\ Parse(a) > Parse(b)

\* The comparator (a, b) => new Date(a.time) - new Date(b.time), as sort
\* reads it: a NaN difference counts as 0.
CompareTime(a, b) ==
  IF Parse(a.time) = NaN \/ Parse(b.time) = NaN THEN 0
  ELSE Parse(a.time) - Parse(b.time)

\* frost?.data ?? []
DataOf(frost) ==
  IF IsNull(frost) THEN << >>
  ELSE IF IsNull(Val(frost).data) THEN << >>
  ELSE Val(Val(frost).data)

\* row.observations ?? []
ObsOfRow(row) == IF IsNull(row.observations) THEN << >> ELSE Val(row.observations)

\* Mutant: frost.data and row.observations read without ?. and ??.
ReducerThrows_OnMissing(frost) ==
  IF IsNull(frost) THEN TRUE
  ELSE IF IsNull(Val(frost).data) THEN TRUE
  ELSE \E i \in 1..Len(DataOf(frost)) :
       IF DOMAIN DataOf(frost)[i] = {} THEN TRUE
       ELSE IF IsNull(DataOf(frost)[i].observations) THEN TRUE
       ELSE \E j \in 1..Len(ObsOfRow(DataOf(frost)[i])) :
              DOMAIN ObsOfRow(DataOf(frost)[i])[j] = {}

\* The loops of a reducer throw a TypeError when a row is null
\* (row.observations) or an observation is null (its destructuring, or
\* ob.elementId).
ReducerThrows(frost) ==
  \E i \in 1..Len(DataOf(frost)) :
    IF DOMAIN DataOf(frost)[i] = {} THEN TRUE
    ELSE \E j \in 1..Len(ObsOfRow(DataOf(frost)[i])) :
           DOMAIN ObsOfRow(DataOf(frost)[i])[j] = {}

\* The observations in the order the two nested loops visit them, each with
\* its row's referenceTime.
RECURSIVE Visited(_)
Visited(rows) ==
  IF Len(rows) = 0 THEN << >>
  ELSE [j \in 1..Len(ObsOfRow(Head(rows))) |->
          [ob |-> ObsOfRow(Head(rows))[j], referenceTime |-> Head(rows).referenceTime]]
       \o Visited(Tail(rows))

\* ob.time || row.referenceTime
ObsTime(v) == IF IsNull(v.ob.time) THEN v.referenceTime ELSE v.ob.time

EmptyLatest == [el \in ElementIds |-> Null]

\* The loop body of reduceLatest; withRef tells the variant that falls back
\* on row.referenceTime from the one of part_004 that reads ob.time only.
RECURSIVE LatestFrom(_, _, _)
LatestFrom(vs, latest, withRef) ==
  IF Len(vs) = 0 THEN latest
  ELSE LET o == Head(vs).ob
           t == IF withRef THEN ObsTime(Head(vs)) ELSE o.time
           keep == /\ ~IsNull(latest[o.elementId])
                   /\ ~DateLater(t, Val(latest[o.elementId]).time)
       IN  LatestFrom(Tail(vs),
                      IF keep THEN latest
                      ELSE [latest EXCEPT ![o.elementId] =
                              Some([value |-> o.value, unit |-> o.unit, time |-> t])],
                      withRef)

\* reduceLatest of server.js and part_000
reduceLatest(frost) == LatestFrom(Visited(DataOf(frost)), EmptyLatest, TRUE)

\* reduceLatest of part_004
reduceLatestOfHistory(frost) == LatestFrom(Visited(DataOf(frost)), EmptyLatest, FALSE)

\* ob.value || 0
ValueOr0(value) == IF IsNull(value) THEN 0 ELSE Val(value)

\* The loop body of sumPrecipitationHourly.
RECURSIVE SumFrom(_, _)
SumFrom(vs, acc) ==
  IF Len(vs) = 0 THEN acc
  ELSE SumFrom(Tail(vs),
               IF Head(vs).ob.elementId = PT1H
               THEN [sum |-> acc.sum + ValueOr0(Head(vs).ob.value), unit |-> Head(vs).ob.unit]
               ELSE acc)

sumPrecipitationHourly(frost, now) ==
  LET acc == SumFrom(Visited(DataOf(frost)), [sum |-> 0, unit |-> "mm"])
  IN  [elementId |-> P1D, value |-> acc.sum, unit |-> acc.unit,
       time |-> TimeStr(now, "ms")]

EmptySeries == [el \in ElementIds |-> Null]

\* (series[elementId] ||= []).push({ time, value, unit })
RECURSIVE GroupFrom(_, _)
GroupFrom(vs, ser) ==
  IF Len(vs) = 0 THEN ser
  ELSE LET o == Head(vs).ob
       IN  GroupFrom(Tail(vs),
                     [ser EXCEPT ![o.elementId] =
                        Some(Append(IF IsNull(@) THEN << >> ELSE Val(@),
                                    [time |-> o.time, value |-> o.value, unit |-> o.unit]))])

\* Array.prototype.sort is stable: p goes behind every point that does not
\* compare greater.
RECURSIVE InsertByTime(_, _)
InsertByTime(sorted, p) ==
  IF Len(sorted) = 0 THEN <<p>>
  ELSE IF CompareTime(Head(sorted), p) <= 0
       THEN <<Head(sorted)>> \o InsertByTime(Tail(sorted), p)
       ELSE <<p>> \o sorted

\* Mutant: the points stay in the order of arrival.
SortByTime_Unsorted(ps) == ps

\* ps.sort((a, b) => new Date(a.time) - new Date(b.time))
RECURSIVE SortByTime(_)
SortByTime(ps) ==
  IF Len(ps) = 0 THEN << >>
  ELSE InsertByTime(SortByTime(SubSeq(ps, 1, Len(ps) - 1)), ps[Len(ps)])

toSeries(frost) ==
  LET grouped == GroupFrom(Visited(DataOf(frost)), EmptySeries)
  IN  [el \in ElementIds |->
         IF IsNull(grouped[el]) THEN Null ELSE Some(SortByTime(Val(grouped[el])))]

----------------------------------------------------------------------------
(* One reducer applied to one response, well formed or not. *)

MaxRows == 2     \* rows of a response handed to a reducer

\* Every air temperature that has a time has the same one, and at most a
\* reading without time besides: the comparator of toSeries stays consistent.
AirAt5 == [elementId |-> AIR, value |-> Some(-35), unit |-> "degC", time |-> TimeStr(5, "ms")]
AirNoTime == [elementId |-> AIR, value |-> Some(-20), unit |-> "degC", time |-> Null]
RainAt2 == [elementId |-> PT1H, value |-> Some(4), unit |-> "mm", time |-> TimeStr(2, "ms")]
RainAt3 == [elementId |-> PT1H, value |-> Null, unit |-> "mm", time |-> TimeStr(3, "ms")]
\* A second reading of instant 2 with another value.
RainAt2Again == [elementId |-> PT1H, value |-> Some(9), unit |-> "mm", time |-> TimeStr(2, "ms")]

ReducerRows ==
  { << >> }
  \cup { [referenceTime |-> TimeStr(6, "ms"), observations |-> obs] :
           obs \in { Null, Some(<< >>), Some(<<AirAt5>>), Some(<<AirNoTime, AirAt5>>),
                     Some(<<RainAt3, RainAt2>>), Some(<<RainAt2, AirAt5>>),
                     Some(<<RainAt2Again>>), Some(<< << >> >>) } }
  \cup { [referenceTime |-> TimeStr(4, "ms"), observations |-> Some(<<AirNoTime>>)] }

ReducerInputs ==
  { Null, Some([data |-> Null]) }
  \cup UNION { { Some([data |-> Some(rows)]) : rows \in [1..n -> ReducerRows] } :
               n \in 0..MaxRows }

ReducerNames == {"toSeries", "reduceLatest", "reduceLatestOfHistory", "sumPrecipitationHourly"}

InitReduce ==
  /\ rFrost \in ReducerInputs
  /\ rOut = Null
  /\ glacierIdle /\ concIdle /\ obsIdle /\ histIdle /\ serverIdle

Returned(fn, value) == Some([fn |-> fn, threw |-> FALSE, value |-> value])

RunToSeries ==
  /\ rOut = Null
  /\ ~ReducerThrows(rFrost)
  /\ rOut' = Returned("toSeries", toSeries(rFrost))
  /\ UNCHANGED <<rFrost, glacierVars, concVars, obsVars, histVars, serverVars>>

RunReduceLatest ==
  /\ rOut = Null
  /\ ~ReducerThrows(rFrost)
  /\ rOut' = Returned("reduceLatest", reduceLatest(rFrost))
  /\ UNCHANGED <<rFrost, glacierVars, concVars, obsVars, histVars, serverVars>>

RunReduceLatestOfHistory ==
  /\ rOut = Null
  /\ ~ReducerThrows(rFrost)
  /\ rOut' = Returned("reduceLatestOfHistory", reduceLatestOfHistory(rFrost))
  /\ UNCHANGED <<rFrost, glacierVars, concVars, obsVars, histVars, serverVars>>

RunSumPrecipitationHourly ==
  /\ rOut = Null
  /\ ~ReducerThrows(rFrost)
  /\ rOut' = Returned("sumPrecipitationHourly", sumPrecipitationHourly(rFrost, 7))
  /\ UNCHANGED <<rFrost, glacierVars, concVars, obsVars, histVars, serverVars>>

\* Any of the reducers reaches a null row or a null observation.
RunThrows ==
  /\ rOut = Null
  /\ ReducerThrows(rFrost)
  /\ \E fn \in ReducerNames : rOut' = Some([fn |-> fn, threw |-> TRUE])
  /\ UNCHANGED <<rFrost, glacierVars, concVars, obsVars, histVars, serverVars>>

NextReduce ==
  \/ RunToSeries
  \/ RunReduceLatest
  \/ RunReduceLatestOfHistory
  \/ RunSumPrecipitationHourly
  \/ RunThrows

SpecReduce == InitReduce /\ [][NextReduce]_vars

----------------------------------------------------------------------------
(* GET /api/observations/:stationId of src/unnamed/part_000.  The clock    *)
(* and the reference times are whole hours since the epoch, so hour h is   *)
(* of UTC day h \div 24; precipitation is in tenths of a millimetre.  The  *)
(* upstream answers a request with the readings whose reference time is in *)
(* the requested interval, or with an error status.                        *)

WindowHours == 24

\* Hours 8 and 20 are of day 0, hours 26 and 29 of day 1.
ObsHours == {8, 20, 26, 29}
ObsValues == {Null, Some(10), Some(25)}
\* Both clocks are of day 1; the 24 hours before 30 reach back into day 0.
ObsClocks == {30, 47}

\* hourly[h] is Null when the station has no reading at h, else Some(value).
Stations ==
  [hourly : [ObsHours -> {Null} \cup {Some(v) : v \in ObsValues}],
   daily : {Null, Some(30)}]

HourlyRow(h, value) ==
  [referenceTime |-> TimeStr(h, "ms"),
   observations |-> Some(<<[elementId |-> PT1H, value |-> value, unit |-> "mm",
                            time |-> Null]>>)]

RECURSIVE RowsBetween(_, _, _)
RowsBetween(hourly, lo, hi) ==
  IF lo >= hi THEN << >>
  ELSE (IF lo \in ObsHours /\ ~IsNull(hourly[lo])
        THEN <<HourlyRow(lo, Val(hourly[lo]))>> ELSE << >>)
       \o RowsBetween(hourly, lo + 1, hi)

\* referencetime = start24h/endISO
MainResponse(station, now) ==
  Some([data |-> Some(RowsBetween(station.hourly, now - WindowHours, now))])

\* startDay.setUTCHours(0, 0, 0, 0)
StartOfDay(now) == now - (now % 24)

\* elements = sum(precipitation_amount P1D), referencetime = startDay/endDay
DailyResponse(station, now) ==
  IF IsNull(station.daily) THEN Some([data |-> Some(<< >>)])
  ELSE Some([data |-> Some(<<
         [referenceTime |-> TimeStr(StartOfDay(now), "ms"),
          observations |-> Some(<<[elementId |-> P1D, value |-> station.daily,
                                   unit |-> "mm", time |-> Null]>>)] >>)])

\* Object.assign(latest, daily)
Assign(latest, daily) ==
  [el \in ElementIds |-> IF IsNull(daily[el]) THEN latest[el] ELSE daily[el]]

InitObs ==
  /\ oNow \in ObsClocks
  /\ oStation \in Stations
  /\ oFrost = Null
  /\ oLatest = EmptyLatest
  /\ oPc = "main"
  /\ oReply = Null
  /\ glacierIdle /\ concIdle /\ reduceIdle /\ histIdle /\ serverIdle

\* frost = await frostJson(url); latest = reduceLatest(frost)
ObsMain ==
  /\ oPc = "main"
  /\ oFrost' = MainResponse(oStation, oNow)
  /\ oLatest' = reduceLatest(MainResponse(oStation, oNow))
  /\ oPc' = "p1d"
  /\ UNCHANGED <<oNow, oStation, oReply, glacierVars, concVars, reduceVars, histVars, serverVars>>

\* p1dFrost?.data?.length is truthy
ObsDaily ==
  /\ oPc = "p1d"
  /\ Len(DataOf(DailyResponse(oStation, oNow))) > 0
  /\ LET latest == Assign(oLatest, reduceLatest(DailyResponse(oStation, oNow)))
     IN  /\ oLatest' = latest
         /\ oReply' = Some([stationId |-> "SN58100", latest |-> latest])
  /\ oPc' = "daily"
  /\ UNCHANGED <<oNow, oStation, oFrost, glacierVars, concVars, reduceVars, histVars, serverVars>>

\* else: latest[sumDaily.elementId] = { value, unit, time } of the hourly sum
ObsHourlySum ==
  /\ oPc = "p1d"
  /\ Len(DataOf(DailyResponse(oStation, oNow))) = 0
  /\ LET sumDaily == sumPrecipitationHourly(oFrost, oNow)
         latest == [oLatest EXCEPT ![sumDaily.elementId] =
                      Some([value |-> Some(sumDaily.value), unit |-> sumDaily.unit,
                            time |-> sumDaily.time])]
     IN  /\ oLatest' = latest
         /\ oReply' = Some([stationId |-> "SN58100", latest |-> latest])
  /\ oPc' = "hourlySum"
  /\ UNCHANGED <<oNow, oStation, oFrost, glacierVars, concVars, reduceVars, histVars, serverVars>>

\* Either request ends with an error status: frostJson throws, and the catch
\* block answers with an empty latest.
ObsFetchFails ==
  /\ oPc \in {"main", "p1d"}
  /\ oReply' = Some([stationId |-> "SN58100", latest |-> EmptyLatest])
  /\ oPc' = "caught"
  /\ UNCHANGED <<oNow, oStation, oFrost, oLatest, glacierVars, concVars, reduceVars, histVars, serverVars>>

NextObs == ObsMain \/ ObsDaily \/ ObsHourlySum \/ ObsFetchFails

SpecObs == InitObs /\ [][NextObs]_vars

----------------------------------------------------------------------------
(* GET /api/history/:stationId of src/unnamed/part_004, for a request with *)
(* start and end and no cache entry.  splitIntervals and pLimit are called *)
(* but defined nowhere in src/: the intervals are taken as given, one      *)
(* upstream response per interval, and the requests complete in any order. *)

NumChunks == 2   \* intervals of a request

\* elementsParam.split(",")
HistElements == {AIR}

HistOb(el, inst, form, value) ==
  [elementId |-> el, value |-> Some(value), unit |-> "degC", time |-> TimeStr(inst, form)]

HistRow(ob) == [referenceTime |-> ob.time, observations |-> Some(<<ob>>)]

\* The rows of a response: in or out of time order, with a time repeated in
\* the response, instant 2 spelled in two forms, instant 3 with two values
\* (an interval boundary answered twice), or an element that was not asked for.
ChunkRows ==
  { << >>,
    <<HistRow(HistOb(AIR, 1, "ms", -10)), HistRow(HistOb(AIR, 3, "ms", -30))>>,
    <<HistRow(HistOb(AIR, 3, "ms", -30)), HistRow(HistOb(AIR, 1, "ms", -10))>>,
    <<HistRow(HistOb(AIR, 3, "ms", -31)), HistRow(HistOb(AIR, 2, "s", -20))>>,
    <<HistRow(HistOb(AIR, 2, "ms", -20))>>,
    <<HistRow(HistOb(AIR, 2, "s", -20)), HistRow(HistOb(AIR, 2, "s", -20))>>,
    <<HistRow(HistOb(WIND, 1, "ms", 4))>> }

Chunks == 1..NumChunks

InitHist ==
  /\ hChunks \in [Chunks -> {Some([data |-> Some(rows)]) : rows \in ChunkRows}]
  /\ hPending = Chunks
  /\ hMerged = [el \in ElementIds |-> IF el \in HistElements THEN Some(<< >>) ELSE Null]
  /\ hPc = "chunks"
  /\ hReply = Null
  /\ hCache = Null
  /\ glacierIdle /\ concIdle /\ reduceIdle /\ obsIdle /\ serverIdle

\* merged[el] is undefined for an element that was not asked for.
PushThrows(merged, ser) ==
  \E el \in ElementIds : ~IsNull(ser[el]) /\ IsNull(merged[el])

\* for (const el of Object.keys(series)) merged[el].push(...series[el])
Push(merged, ser) ==
  [el \in ElementIds |->
     IF IsNull(ser[el]) THEN merged[el] ELSE Some(Val(merged[el]) \o Val(ser[el]))]

\* The request of interval k completes and its series is appended.
HistChunk(k) ==
  /\ hPc = "chunks"
  /\ k \in hPending
  /\ ~PushThrows(hMerged, toSeries(hChunks[k]))
  /\ hMerged' = Push(hMerged, toSeries(hChunks[k]))
  /\ hPending' = hPending \ {k}
  /\ UNCHANGED <<hChunks, hPc, hReply, hCache, glacierVars, concVars, reduceVars, obsVars, serverVars>>

\* The push of interval k throws a TypeError: Promise.all rejects, the catch
\* block answers 500.
HistPushThrows(k) ==
  /\ hPc = "chunks"
  /\ k \in hPending
  /\ PushThrows(hMerged, toSeries(hChunks[k]))
  /\ hPending' = hPending \ {k}
  /\ hPc' = "failed"
  /\ hReply' = Some([status |-> 500])
  /\ UNCHANGED <<hChunks, hMerged, hCache, glacierVars, concVars, reduceVars, obsVars, serverVars>>

\* The upstream answers interval k with an error status: frostJson throws
\* with err.status, the catch block answers with that status.
HistFetchFails(k) ==
  /\ hPc = "chunks"
  /\ k \in hPending
  /\ hPending' = hPending \ {k}
  /\ hPc' = "failed"
  /\ hReply' = Some([status |-> 404])
  /\ UNCHANGED <<hChunks, hMerged, hCache, glacierVars, concVars, reduceVars, obsVars, serverVars>>

\* ps.filter((p) => !seen.has(p.time) && seen.add(p.time))
RECURSIVE FilterSeen(_, _)
FilterSeen(ps, seen) ==
  IF Len(ps) = 0 THEN << >>
  ELSE IF Head(ps).time \in seen THEN FilterSeen(Tail(ps), seen)
  ELSE <<Head(ps)>> \o FilterSeen(Tail(ps), seen \cup {Head(ps).time})

\* After Promise.all: every merged series deduplicated, then sorted; the
\* payload is cached and sent.
HistFinish ==
  /\ hPc = "chunks"
  /\ hPending = {}
  /\ LET final == [el \in ElementIds |->
                     IF IsNull(hMerged[el]) THEN Null
                     ELSE Some(SortByTime(FilterSeen(Val(hMerged[el]), {})))]
     IN  /\ hMerged' = final
         /\ hCache' = Some([series |-> final])
         /\ hReply' = Some([status |-> 200, series |-> final])
  /\ hPc' = "done"
  /\ UNCHANGED <<hChunks, hPending, glacierVars, concVars, reduceVars, obsVars, serverVars>>

NextHist ==
  \/ \E k \in Chunks : HistChunk(k) \/ HistPushThrows(k) \/ HistFetchFails(k)
  \/ HistFinish

SpecHist == InitHist /\ [][NextHist]_vars

----------------------------------------------------------------------------
(* The in-memory cache of src/server.js (the same text in part_000): a Map *)
(* from key to { t, ttlMs, data }.  The clock is in milliseconds and only  *)
(* advances.                                                               *)

MaxClockMs == 2000   \* the clock stops advancing here

CacheKeys == {"stations", "nve"}
CacheData == {"x", "y"}
TtlSecs == {0, 1}
ClockSteps == {500, 1000}

\* Mutant: an entry expires as soon as its age reaches ttlMs.
Expired_AtTtl(hit, now) == now - hit.t >= hit.ttlMs

\* Date.now() - hit.t > hit.ttlMs
Expired(hit, now) == now - hit.t > hit.ttlMs

InitCache ==
  /\ cClock = 0
  /\ cMap = [k \in CacheKeys |-> Null]
  /\ cLastSet = [k \in CacheKeys |-> Null]
  /\ cGot = Null
  /\ cacheRest

\* setCache(key, data, ttlSec)
SetCache(key, data, ttlSec) ==
  /\ cMap' = [cMap EXCEPT ![key] = Some([t |-> cClock, ttlMs |-> ttlSec * 1000, data |-> data])]
  /\ cLastSet' = [cLastSet EXCEPT ![key] = Some([t |-> cClock, ttlSec |-> ttlSec, data |-> data])]
  /\ cGot' = Null
  /\ UNCHANGED <<cClock, cacheFrame>>

\* getCache(key): a miss, an expired entry (deleted) or a hit
GetCache(key) ==
  /\ IF IsNull(cMap[key])
       THEN /\ cGot' = Some([key |-> key, value |-> Null])
            /\ cMap' = cMap
       ELSE IF Expired(Val(cMap[key]), cClock)
         THEN /\ cMap' = [cMap EXCEPT ![key] = Null]
              /\ cGot' = Some([key |-> key, value |-> Null])
         ELSE /\ cGot' = Some([key |-> key, value |-> Some(Val(cMap[key]).data)])
              /\ cMap' = cMap
  /\ UNCHANGED <<cClock, cLastSet, cacheFrame>>

\* Time passes.
Advance(ms) ==
  /\ cClock + ms <= MaxClockMs
  /\ cClock' = cClock + ms
  /\ cGot' = Null
  /\ UNCHANGED <<cMap, cLastSet, cacheFrame>>

NextCache ==
  \/ \E key \in CacheKeys, data \in CacheData, ttlSec \in TtlSecs : SetCache(key, data, ttlSec)
  \/ \E key \in CacheKeys : GetCache(key)
  \/ \E ms \in ClockSteps : Advance(ms)

SpecCache == InitCache /\ [][NextCache]_vars

----------------------------------------------------------------------------
(* frostJson: the fetch wrapper of src/server.js:63-81 (the same in        *)
(* part_001) and the one of src/unnamed/part_004:39-55.                    *)

\* 0 stands for a fetch that rejects (no HTTP answer).
Statuses == {0, 200, 404, 412, 429, 500}

\* r.ok
Ok(status) == status >= 200 /\ status <= 299

FetchBodies == {Some([data |-> Some(rows)]) : rows \in ChunkRows} \cup {Some([data |-> Null])}

InitFetch ==
  /\ fResp \in [status : Statuses, body : FetchBodies]
  /\ fOut = Null
  /\ fetchRest

\* return r.json()
FrostJsonReturns ==
  /\ fOut = Null
  /\ Ok(fResp.status)
  /\ fOut' = Some([fn |-> "frostJson", threw |-> FALSE, value |-> fResp.body])
  /\ UNCHANGED <<fResp, fetchFrame>>

\* if (r.status === 412) return { data: [], warning: "No data available" }
FrostJsonNoData ==
  /\ fOut = Null
  /\ ~Ok(fResp.status) /\ fResp.status = 412
  /\ fOut' = Some([fn |-> "frostJson", threw |-> FALSE,
                   value |-> Some([data |-> Some(<< >>), warning |-> "No data available"])])
  /\ UNCHANGED <<fResp, fetchFrame>>

\* fetch rejects, or throw new Error(`Frost ${r.status}: ${text}`)
FrostJsonThrows ==
  /\ fOut = Null
  /\ ~Ok(fResp.status) /\ fResp.status # 412
  /\ fOut' = Some([fn |-> "frostJson", threw |-> TRUE])
  /\ UNCHANGED <<fResp, fetchFrame>>

\* part_004: return r.json()
HistoryFrostJsonReturns ==
  /\ fOut = Null
  /\ Ok(fResp.status)
  /\ fOut' = Some([fn |-> "frostJson of part_004", threw |-> FALSE, value |-> fResp.body])
  /\ UNCHANGED <<fResp, fetchFrame>>

\* part_004: fetch rejects, or if (!r.ok) throw err with err.status = r.status
HistoryFrostJsonThrows ==
  /\ fOut = Null
  /\ ~Ok(fResp.status)
  /\ fOut' = Some([fn |-> "frostJson of part_004", threw |-> TRUE, status |-> fResp.status])
  /\ UNCHANGED <<fResp, fetchFrame>>

NextFetch ==
  \/ FrostJsonReturns
  \/ FrostJsonNoData
  \/ FrostJsonThrows
  \/ HistoryFrostJsonReturns
  \/ HistoryFrostJsonThrows

SpecFetch == InitFetch /\ [][NextFetch]_vars

----------------------------------------------------------------------------
(* Fetches that widen their window: GET /api/observations/:stationId of    *)
(* src/unnamed/part_001 (24 h, then 48 h), fetchLatestBatch of part_001    *)
(* and part_000 (12 h, then 24 h), and GET /api/observations/:stationId of *)
(* src/server.js, which asks for 24 h only.  Each await is one step: the   *)
(* request, and everything the code does until the next await or the end.  *)

WidenKinds == {"observations", "observations24", "batch"}

\* The hours of the narrow and of the wide window; 0: there is no wide one.
NarrowHours(kind) == IF kind = "batch" THEN 12 ELSE 24
WideHours(kind) == IF kind = "batch" THEN 24 ELSE IF kind = "observations" THEN 48 ELSE 0

StationIds == {"SN1", "SN2"}

WidenRows ==
  { [sourceId |-> "SN1", referenceTime |-> TimeStr(5, "ms"),
     observations |-> Some(<<[elementId |-> AIR, value |-> Some(-35), unit |-> "degC", time |-> Null]>>)],
    [sourceId |-> "SN2", referenceTime |-> TimeStr(6, "ms"),
     observations |-> Some(<<[elementId |-> WIND, value |-> Some(4), unit |-> "m/s", time |-> Null],
                             [elementId |-> AIR, value |-> Some(-20), unit |-> "degC", time |-> Null]>>)],
    [sourceId |-> "SN2", referenceTime |-> TimeStr(6, "ms"),
     observations |-> Some(<<[elementId |-> WIND, value |-> Some(4), unit |-> "m/s", time |-> Null]>>)],
    [sourceId |-> "SN1", referenceTime |-> TimeStr(6, "ms"), observations |-> Null] }

MaxWidenRows == 2   \* rows of an upstream response

WidenAnswers ==
  { [status |-> 200, body |-> Some([data |-> Some(rows)])] :
      rows \in UNION { [1..n -> WidenRows] : n \in 0..MaxWidenRows } }
  \cup { [status |-> s, body |-> Null] : s \in {0, 412, 500} }

\* frostJson of server.js and part_001, as a function of the upstream's answer
frostJson(resp) ==
  IF Ok(resp.status) THEN [threw |-> FALSE, value |-> resp.body]
  ELSE IF resp.status = 412 THEN [threw |-> FALSE, value |-> Some([data |-> Some(<< >>)])]
  ELSE [threw |-> TRUE, value |-> Null]

EmptyByStation == [s \in StationIds |-> Null]

\* row.observations?.find((o) => o.elementId === "air_temperature")
FindAir(row) ==
  LET air == SelectSeq(ObsOfRow(row), LAMBDA o : o.elementId = AIR)
  IN  IF Len(air) = 0 THEN Null ELSE Some(air[1])

\* The loop of fetchLatestBatch over the rows of a response.
RECURSIVE ByStationFrom(_, _)
ByStationFrom(rows, acc) ==
  IF Len(rows) = 0 THEN acc
  ELSE ByStationFrom(Tail(rows),
         IF IsNull(FindAir(Head(rows))) THEN acc
         ELSE [acc EXCEPT ![Head(rows).sourceId] =
                 Some([value |-> Val(FindAir(Head(rows))).value,
                       unit |-> Val(FindAir(Head(rows))).unit,
                       time |-> Val(FindAir(Head(rows))).time])])

\* What the code makes of a response: reduceLatest(frost), or the loop of
\* fetchLatestBatch continuing on latestByStation.
Reduced(kind, frost, acc) ==
  IF kind = "batch" THEN ByStationFrom(DataOf(frost), acc) ELSE reduceLatest(frost)

EmptyOf(kind) == IF kind = "batch" THEN EmptyByStation ELSE EmptyLatest

\* Object.keys(latest).length is 0
NoKeys(latest) == \A k \in DOMAIN latest : IsNull(latest[k])

\* Mutant: the wide window is asked for whatever the narrow one returned.
AsksWider_Always(kind, latest) == WideHours(kind) # 0

\* if (!Object.keys(latest).length), where there is a fallback at all
AsksWider(kind, latest) == WideHours(kind) # 0 /\ NoKeys(latest)

\* Mutant: the catch block answers with status 500.
Answer_Error(kind, latest) ==
  IF kind = "batch" THEN latest
  ELSE [status |-> 500, body |-> [stationId |-> "SN1", latest |-> latest]]

\* res.json({ stationId, latest }), or return latestByStation
Answer(kind, latest) ==
  IF kind = "batch" THEN latest
  ELSE [status |-> 200, body |-> [stationId |-> "SN1", latest |-> latest]]

InitWiden ==
  /\ wKind \in WidenKinds
  /\ wUpstream = [narrow |-> Null, wide |-> Null]
  /\ wRequests = << >>
  /\ wLatest = << >>
  /\ wPc = "narrow"
  /\ wSent = 0
  /\ wOut = Null
  /\ widenRest

\* The narrow request returns; the code reduces it and either answers or
\* goes on to the wide request.
NarrowReturns(resp) ==
  /\ wPc = "narrow"
  /\ ~frostJson(resp).threw
  /\ wUpstream' = [wUpstream EXCEPT !.narrow = resp]
  /\ LET latest == Reduced(wKind, frostJson(resp).value, EmptyOf(wKind))
     IN  /\ wLatest' = latest
         /\ wRequests' = Append(wRequests, [hours |-> NarrowHours(wKind), threw |-> FALSE])
         /\ IF AsksWider(wKind, latest)
              THEN wPc' = "wide" /\ UNCHANGED <<wSent, wOut>>
              ELSE /\ wPc' = "done"
                   /\ wSent' = wSent + 1
                   /\ wOut' = Some(Answer(wKind, latest))
  /\ UNCHANGED <<wKind, widenFrame>>

\* The wide request returns; the code reduces it and answers.
WideReturns(resp) ==
  /\ wPc = "wide"
  /\ ~frostJson(resp).threw
  /\ wUpstream' = [wUpstream EXCEPT !.wide = resp]
  /\ LET latest == Reduced(wKind, frostJson(resp).value, wLatest)
     IN  /\ wLatest' = latest
         /\ wOut' = Some(Answer(wKind, latest))
  /\ wRequests' = Append(wRequests, [hours |-> WideHours(wKind), threw |-> FALSE])
  /\ wPc' = "done"
  /\ wSent' = wSent + 1
  /\ UNCHANGED <<wKind, widenFrame>>

\* The request that is under way throws; the catch block answers with an
\* empty latest (the handlers) or returns {} (fetchLatestBatch).
WidenCatches(resp) ==
  /\ wPc \in {"narrow", "wide"}
  /\ frostJson(resp).threw
  /\ wUpstream' = IF wPc = "narrow" THEN [wUpstream EXCEPT !.narrow = resp]
                                     ELSE [wUpstream EXCEPT !.wide = resp]
  /\ wRequests' = Append(wRequests,
       [hours |-> IF wPc = "narrow" THEN NarrowHours(wKind) ELSE WideHours(wKind),
        threw |-> TRUE])
  /\ wPc' = "caught"
  /\ wSent' = wSent + 1
  /\ wOut' = Some(Answer(wKind, EmptyOf(wKind)))
  /\ UNCHANGED <<wKind, wLatest, widenFrame>>

NextWiden ==
  \E resp \in WidenAnswers : NarrowReturns(resp) \/ WideReturns(resp) \/ WidenCatches(resp)

SpecWiden == InitWiden /\ [][NextWiden]_vars

----------------------------------------------------------------------------
(* GET /api/stations of src/server.js:174-203 with fetchLatestBatch of     *)
(* src/server.js:140-168 (one 12-hour window).  The stations of the list   *)
(* have the ids 1..n.  Each await is one step.                             *)

BATCH_SIZE == 50
MaxStations == 101   \* stations of the longest upstream list

StationCounts == {0, 1, BATCH_SIZE - 1, BATCH_SIZE, BATCH_SIZE + 1, 2 * BATCH_SIZE, MaxStations}

StationList(n) == [i \in 1..n |-> [id |-> i, name |-> "station"]]

\* The batch request fails, or the response has a reading for none, for
\* every, for the first or for the last of the ids asked for.
BatchPatterns == {"fails", "none", "every", "first", "last"}

BatchesOf(n) == (n + BATCH_SIZE - 1) \div BATCH_SIZE

ReadingRow(id) ==
  [sourceId |-> id, referenceTime |-> TimeStr(5, "ms"),
   observations |-> Some(<<[elementId |-> AIR, value |-> Some(id), unit |-> "degC",
                            time |-> TimeStr(5, "ms")]>>)]

\* The upstream's response to a batch request for ids, by pattern.
BatchResponse(ids, pattern) ==
  LET with == CASE pattern = "every" -> ids
                [] pattern = "first" -> SubSeq(ids, 1, 1)
                [] pattern = "last" -> SubSeq(ids, Len(ids), Len(ids))
                [] OTHER -> << >>
  IN  Some([data |-> Some([k \in 1..Len(with) |-> ReadingRow(with[k])])])

\* Mutant: the chunk ends one station early.
ChunkIds_Short(stations, i) ==
  LET last == IF i + BATCH_SIZE - 1 < Len(stations) THEN i + BATCH_SIZE - 1 ELSE Len(stations)
  IN  [k \in 1..(last - i) |-> stations[i + k].id]

\* stations.slice(i, i + BATCH_SIZE).map((s) => s.id), i counted from 0
ChunkIds(stations, i) ==
  LET last == IF i + BATCH_SIZE < Len(stations) THEN i + BATCH_SIZE ELSE Len(stations)
  IN  [k \in 1..(last - i) |-> stations[i + k].id]

\* Object.assign(allLatest, latest)
AssignLatest(allLatest, latest) ==
  [id \in DOMAIN allLatest |->
     IF id \in DOMAIN latest /\ ~IsNull(latest[id]) THEN latest[id] ELSE allLatest[id]]

\* stations.map((station) => ({ ...station, latestTemperature: allLatest[station.id] || null }))
Enriched(stations, allLatest) ==
  [k \in 1..Len(stations) |->
     [id |-> stations[k].id, name |-> stations[k].name,
      latestTemperature |-> allLatest[stations[k].id]]]

InitStations ==
  /\ \E n \in StationCounts :
       /\ sStations \in {Null, Some(StationList(n))}
       /\ sAnswers \in [1..BatchesOf(n) -> BatchPatterns]
       /\ sAllLatest = [id \in 1..n |-> Null]
  /\ sCached \in {Null, Some("cached stations")}
  /\ sPc = "arrive"
  /\ sI = 0
  /\ sRequests = << >>
  /\ sOut = Null
  /\ stationsRest

\* getCache finds the entry: res.json(hit)
StationsHit ==
  /\ sPc = "arrive"
  /\ ~IsNull(sCached)
  /\ sOut' = Some([status |-> 200, body |-> Val(sCached)])
  /\ sPc' = "done"
  /\ UNCHANGED <<sStations, sAnswers, sCached, sI, sAllLatest, sRequests, stationsFrame>>

\* getCache returns null: the station list is requested
StationsMiss ==
  /\ sPc = "arrive"
  /\ IsNull(sCached)
  /\ sPc' = "list"
  /\ UNCHANGED <<sStations, sAnswers, sCached, sI, sAllLatest, sRequests, sOut, stationsFrame>>

\* setCache(cacheKey, enrichedStations, 10 * 60); res.json(enrichedStations)
Finish(stations, allLatest) ==
  /\ sCached' = Some(Enriched(stations, allLatest))
  /\ sOut' = Some([status |-> 200, body |-> Enriched(stations, allLatest)])
  /\ sPc' = "done"

\* The loop: either the next batch is sent, or the loop is over.
Loop(stations, i, allLatest) ==
  IF i < Len(stations)
    THEN /\ sRequests' = Append(sRequests, ChunkIds(stations, i))
         /\ sPc' = "batch"
         /\ UNCHANGED <<sCached, sOut>>
    ELSE /\ Finish(stations, allLatest)
         /\ UNCHANGED sRequests

\* The station list arrives.
ListReturns ==
  /\ sPc = "list"
  /\ ~IsNull(sStations)
  /\ Loop(Val(sStations), 0, sAllLatest)
  /\ UNCHANGED <<sStations, sAnswers, sI, sAllLatest, stationsFrame>>

\* frostJson throws for the station list: status 500
ListThrows ==
  /\ sPc = "list"
  /\ IsNull(sStations)
  /\ sOut' = Some([status |-> 500, body |-> "Failed to fetch stations"])
  /\ sPc' = "failed"
  /\ UNCHANGED <<sStations, sAnswers, sCached, sI, sAllLatest, sRequests, stationsFrame>>

\* fetchLatestBatch returns what its response holds, or {} when its fetch
\* failed; the loop goes on.
BatchReturns ==
  /\ sPc = "batch"
  /\ LET pattern == sAnswers[Len(sRequests)]
         ids == sRequests[Len(sRequests)]
         latest == IF pattern = "fails" THEN << >>
                   ELSE ByStationFrom(DataOf(BatchResponse(ids, pattern)),
                                      [id \in {ids[k] : k \in 1..Len(ids)} |-> Null])
         allLatest == AssignLatest(sAllLatest, latest)
     IN  /\ sAllLatest' = allLatest
         /\ sI' = sI + BATCH_SIZE
         /\ Loop(Val(sStations), sI + BATCH_SIZE, allLatest)
  /\ UNCHANGED <<sStations, sAnswers, stationsFrame>>

NextStations == StationsHit \/ StationsMiss \/ ListReturns \/ ListThrows \/ BatchReturns

SpecStations == InitStations /\ [][NextStations]_vars

----------------------------------------------------------------------------
(* nveObservations (src/server.js:259-309) with chunkArray (248-254),      *)
(* called directly or by GET /api/nve/observations (344-367).  The station *)
(* ids of a list are 1..n.  Each await is one step.                        *)

NVE_CHUNK == 200
MaxIds == 401   \* ids of the longest list

IdCounts == {0, 1, 2, NVE_CHUNK - 1, NVE_CHUNK, NVE_CHUNK + 1, 2 * NVE_CHUNK, MaxIds}

IdList(n) == [i \in 1..n |-> i]

\* The request fails; or its response has one datum per id asked for, a
\* datum for the first id only, an empty data list, or no data field.
NvePatterns == {"fails", "each", "first", "empty", "nodata"}

Datum(id) == [stationId |-> id, parameter |-> 1001]

NveResponse(ids, pattern) ==
  CASE pattern = "each" -> [data |-> Some([k \in 1..Len(ids) |-> Datum(ids[k])])]
    [] pattern = "first" -> [data |-> Some(<<Datum(ids[1])>>)]
    [] pattern = "empty" -> [data |-> Some(<< >>)]
    [] OTHER -> [data |-> Null]

\* Mutant: the chunks are one element longer than size.
chunkArray_Wide(array, size) ==
  [c \in 1..((Len(array) + size) \div (size + 1)) |->
     SubSeq(array, (c - 1) * (size + 1) + 1,
            IF c * (size + 1) < Len(array) THEN c * (size + 1) ELSE Len(array))]

\* for (i = 0; i < array.length; i += size) result.push(array.slice(i, i + size))
chunkArray(array, size) ==
  [c \in 1..((Len(array) + size - 1) \div size) |->
     SubSeq(array, (c - 1) * size + 1,
            IF c * size < Len(array) THEN c * size ELSE Len(array))]

RequestsOf(n) == IF n <= 1 THEN n ELSE (n + NVE_CHUNK - 1) \div NVE_CHUNK

InitNve ==
  /\ \E n \in IdCounts :
       /\ nIds \in {Null, Some(IdList(n))}
       /\ nAnswers \in [1..RequestsOf(n) -> NvePatterns]
  /\ nVia \in {"route", "call"}
  /\ nPc = "call"
  /\ nChunks = << >>
  /\ nRequests = << >>
  /\ nAllData = << >>
  /\ nOut = Null
  /\ nveRest

\* What the caller gets: the value itself, or the route's res.json(obs).
Delivered(value) == IF nVia = "route" THEN [status |-> 200, body |-> value] ELSE value
\* What a throw becomes: the call rejects, or the route answers status 500.
Failed == IF nVia = "route" THEN [status |-> 500, body |-> "Failed to fetch NVE observations"]
          ELSE "rejected"

\* if (!stationId) return res.status(400)
RouteRejects ==
  /\ nPc = "call"
  /\ nVia = "route"
  /\ IsNull(nIds)
  /\ nOut' = Some([status |-> 400, body |-> "stationId query required"])
  /\ nPc' = "rejected"
  /\ UNCHANGED <<nIds, nVia, nAnswers, nChunks, nRequests, nAllData, nveFrame>>

\* nveObservations up to its first await or return
NveCall ==
  /\ nPc = "call"
  /\ ~(nVia = "route" /\ IsNull(nIds))
  /\ IF IsNull(nIds)
       THEN /\ nOut' = Some(Delivered(<< >>))
            /\ nPc' = "returned"
            /\ UNCHANGED <<nChunks, nRequests>>
       ELSE LET ids == Val(nIds) IN
            IF Len(ids) = 0
              THEN /\ nOut' = Some(Delivered(<< >>))
                   /\ nPc' = "returned"
                   /\ UNCHANGED <<nChunks, nRequests>>
              ELSE IF Len(ids) = 1
                THEN /\ nRequests' = <<[method |-> "GET", ids |-> ids]>>
                     /\ nPc' = "get"
                     /\ UNCHANGED <<nChunks, nOut>>
                ELSE /\ nChunks' = chunkArray(ids, NVE_CHUNK)
                     /\ nRequests' = <<[method |-> "POST", ids |-> chunkArray(ids, NVE_CHUNK)[1]]>>
                     /\ nPc' = "post"
                     /\ UNCHANGED nOut
  /\ UNCHANGED <<nIds, nVia, nAnswers, nAllData, nveFrame>>

\* return res?.data ?? []
NveGetReturns ==
  /\ nPc = "get"
  /\ nAnswers[1] # "fails"
  /\ LET res == NveResponse(nRequests[1].ids, nAnswers[1])
     IN  nOut' = Some(Delivered(IF IsNull(res.data) THEN << >> ELSE Val(res.data)))
  /\ nPc' = "returned"
  /\ UNCHANGED <<nIds, nVia, nAnswers, nChunks, nRequests, nAllData, nveFrame>>

\* nveJson throws: nothing of nveObservations catches it
NveThrows ==
  /\ nPc \in {"get", "post"}
  /\ nAnswers[Len(nRequests)] = "fails"
  /\ nOut' = Some(Failed)
  /\ nPc' = "threw"
  /\ UNCHANGED <<nIds, nVia, nAnswers, nChunks, nRequests, nAllData, nveFrame>>

\* if (res?.data) allData = allData.concat(res.data); then the next chunk
\* or return allData
NvePostReturns ==
  /\ nPc = "post"
  /\ nAnswers[Len(nRequests)] # "fails"
  /\ LET res == NveResponse(nRequests[Len(nRequests)].ids, nAnswers[Len(nRequests)])
         allData == IF IsNull(res.data) THEN nAllData ELSE nAllData \o Val(res.data)
     IN  /\ nAllData' = allData
         /\ IF Len(nRequests) < Len(nChunks)
              THEN /\ nRequests' = Append(nRequests, [method |-> "POST",
                                                      ids |-> nChunks[Len(nRequests) + 1]])
                   /\ UNCHANGED <<nPc, nOut>>
              ELSE /\ nOut' = Some(Delivered(allData))
                   /\ nPc' = "returned"
                   /\ UNCHANGED nRequests
  /\ UNCHANGED <<nIds, nVia, nAnswers, nChunks, nveFrame>>

NextNve == RouteRejects \/ NveCall \/ NveGetReturns \/ NveThrows \/ NvePostReturns

SpecNve == InitNve /\ [][NextNve]_vars

----------------------------------------------------------------------------
(* The client module src/unnamed/part_003: api (50-82), fetchStations      *)
(* (87-99) and the module variables controller and stationCache (6-7).     *)
(* Calls run on one thread; each await is one step.  An aborted signal     *)
(* makes a pending fetch and a pending read of the response body reject    *)
(* with an AbortError.                                                     *)

NumClientCalls == 3

ClientCalls == 1..NumClientCalls
Bodies == {"array", "object"}
Settled == {"returned", "cached", "AbortError", "connectError", "httpError", "notArray"}
Pending == {"fetch", "text", "json"}

InitClient ==
  /\ controller = Null
  /\ stationCache = Null
  /\ kKind \in [ClientCalls -> {"fetchStations", "other"}]
  /\ kPc = [c \in ClientCalls |-> "new"]
  /\ kAborted = {}
  /\ kCut = {}
  /\ kData = [c \in ClientCalls |-> Null]
  /\ kStored = {}
  /\ clientRest

\* if (stationCache) return stationCache
FetchStationsCached(c) ==
  /\ kPc[c] = "new"
  /\ kKind[c] = "fetchStations"
  /\ ~IsNull(stationCache)
  /\ kPc' = [kPc EXCEPT ![c] = "cached"]
  /\ kData' = [kData EXCEPT ![c] = stationCache]
  /\ UNCHANGED <<controller, stationCache, kKind, kAborted, kCut, kStored, clientFrame>>

\* api up to await fetch: if (controller) controller.abort();
\* controller = new AbortController()
ApiStart(c) ==
  /\ kPc[c] = "new"
  /\ kKind[c] = "fetchStations" => IsNull(stationCache)
  /\ IF IsNull(controller)
       THEN UNCHANGED <<kAborted, kCut>>
       ELSE /\ kAborted' = kAborted \cup {Val(controller)}
            /\ kCut' = IF kPc[Val(controller)] \in Pending /\ Val(controller) \notin kAborted
                         THEN kCut \cup {Val(controller)} ELSE kCut
  /\ controller' = Some(c)
  /\ kPc' = [kPc EXCEPT ![c] = "fetch"]
  /\ UNCHANGED <<stationCache, kKind, kData, kStored, clientFrame>>

\* fetch resolves with a response: res.ok or not
FetchResolves(c, ok, body) ==
  /\ kPc[c] = "fetch"
  /\ c \notin kAborted
  /\ kPc' = [kPc EXCEPT ![c] = IF ok THEN "json" ELSE "text"]
  /\ kData' = [kData EXCEPT ![c] = Some(body)]
  /\ UNCHANGED <<controller, stationCache, kKind, kAborted, kCut, kStored, clientFrame>>

\* fetch rejects: with an AbortError when the signal is aborted (rethrown),
\* else with a network error (new Error("... Failed to connect to backend"))
FetchRejects(c) ==
  /\ kPc[c] = "fetch"
  /\ kPc' = [kPc EXCEPT ![c] = IF c \in kAborted THEN "AbortError" ELSE "connectError"]
  /\ UNCHANGED <<controller, stationCache, kKind, kAborted, kCut, kData, kStored, clientFrame>>

\* text = await res.text().catch(() => ""); throw new Error(context (status): text)
TextSettles(c) == "httpError"

TextDone(c) ==
  /\ kPc[c] = "text"
  /\ kPc' = [kPc EXCEPT ![c] = TextSettles(c)]
  /\ UNCHANGED <<controller, stationCache, kKind, kAborted, kCut, kData, kStored, clientFrame>>

\* await res.json() rejects with an AbortError when the signal is aborted;
\* else api returns json, and fetchStations checks and stores it
JsonDone(c) ==
  /\ kPc[c] = "json"
  /\ IF c \in kAborted
       THEN /\ kPc' = [kPc EXCEPT ![c] = "AbortError"]
            /\ UNCHANGED <<stationCache, kStored>>
       ELSE IF kKind[c] = "fetchStations"
         THEN IF Val(kData[c]) = "array"
                THEN /\ stationCache' = kData[c]
                     /\ kStored' = kStored \cup {c}
                     /\ kPc' = [kPc EXCEPT ![c] = "returned"]
                ELSE /\ kPc' = [kPc EXCEPT ![c] = "notArray"]
                     /\ UNCHANGED <<stationCache, kStored>>
         ELSE /\ kPc' = [kPc EXCEPT ![c] = "returned"]
              /\ UNCHANGED <<stationCache, kStored>>
  /\ UNCHANGED <<controller, kKind, kAborted, kCut, kData, clientFrame>>

NextClient ==
  \E c \in ClientCalls :
    \/ FetchStationsCached(c)
    \/ ApiStart(c)
    \/ \E body \in Bodies : FetchResolves(c, TRUE, body)
    \/ FetchResolves(c, FALSE, "object")
    \/ FetchRejects(c)
    \/ TextDone(c)
    \/ JsonDone(c)

SpecClient == InitClient /\ [][NextClient]_vars

----------------------------------------------------------------------------
(* The cached station routes: GET /api/stations (src/server.js:174-203,    *)
(* src/unnamed/part_000:285-298), GET /api/nve/latest (part_000:368-382)   *)
(* and the prewarm timers with refreshStationsCache and refreshNveCache    *)
(* (part_000:228-277).  Requests and timers interleave at their awaits.    *)
(* A load is one step here: its requests and batches are in SpecStations.  *)

NumRequests == 2
ClockStep == 400000      \* the clock moves in steps of 400 s
MaxRouteClock == 800000  \* and stops at 800 s
RouteTtlSec == 600

StationsKey == "stations-with-latest-temp"
NveKey == "nve-latest-1001"
RouteKeys == {StationsKey, NveKey}

Requests == 1..NumRequests
StationsTimer == NumRequests + 1
NveTimer == NumRequests + 2
Timers == {StationsTimer, NveTimer}
Procs == Requests \cup Timers

KeyOf(p) == IF p \in Requests THEN qRoute[p]
            ELSE IF p = StationsTimer THEN StationsKey ELSE NveKey

\* What the load of process p that completes at time now returns; nulls
\* says that every temperature batch failed.
Loaded(p, now, nulls) == [key |-> KeyOf(p), at |-> now, nulls |-> nulls]

\* Mutant: an entry is returned whatever its age.
getCacheOf_NoExpiry(map, key, now) ==
  IF IsNull(map[key]) THEN [value |-> Null, map |-> map]
  ELSE [value |-> Some(Val(map[key]).data), map |-> map]

\* getCache(key) at time now: the value returned and the cache after it
getCacheOf(map, key, now) ==
  IF IsNull(map[key]) THEN [value |-> Null, map |-> map]
  ELSE IF Expired(Val(map[key]), now)
    THEN [value |-> Null, map |-> [map EXCEPT ![key] = Null]]
    ELSE [value |-> Some(Val(map[key]).data), map |-> map]

\* setCache(key, data, ttlSec) at time now
setCacheOf(map, key, data, ttlSec, now) ==
  [map EXCEPT ![key] = Some([t |-> now, ttlMs |-> ttlSec * 1000, data |-> data])]

InitRoutes ==
  /\ qClock = 0
  /\ qCache = [k \in RouteKeys |-> Null]
  /\ qRoute \in {f \in [Requests -> RouteKeys] :   \* requests are interchangeable
                  \A a, b \in Requests : (a < b /\ f[a] = NveKey) => f[b] = NveKey}
  /\ qPc = [p \in Procs |-> IF p \in Requests THEN "new" ELSE "idle"]
  /\ qLoad = [p \in Procs |-> "none"]
  /\ qAsked = {}
  /\ qSent = [r \in Requests |-> Null]
  /\ routesRest

Tick ==
  /\ qClock + ClockStep <= MaxRouteClock
  /\ qClock' = qClock + ClockStep
  /\ UNCHANGED <<qCache, qRoute, qPc, qLoad, qAsked, qSent, routesFrame>>

\* hit = getCache(cacheKey); if (hit) return res.json(hit); else the load
\* starts
Arrive(r) ==
  /\ qPc[r] = "new"
  /\ LET got == getCacheOf(qCache, qRoute[r], qClock)
     IN  /\ qCache' = got.map
         /\ IF IsNull(got.value)
              THEN /\ qPc' = [qPc EXCEPT ![r] = "loading"]
                   /\ qAsked' = qAsked \cup {r}
                   /\ UNCHANGED qSent
              ELSE /\ qPc' = [qPc EXCEPT ![r] = "done"]
                   /\ qSent' = [qSent EXCEPT ![r] =
                                  Some([status |-> 200, body |-> got.value, from |-> "hit"])]
                   /\ UNCHANGED qAsked
  /\ UNCHANGED <<qClock, qRoute, qLoad, routesFrame>>

\* GET /api/stations: the load returns; setCache(cacheKey, enrichedStations,
\* 10 * 60); res.json(enrichedStations)
StationsLoadReturns(r, nulls) ==
  /\ r \in Requests
  /\ qPc[r] = "loading"
  /\ qRoute[r] = StationsKey
  /\ qCache' = setCacheOf(qCache, StationsKey, Loaded(r, qClock, nulls), RouteTtlSec, qClock)
  /\ qSent' = [qSent EXCEPT ![r] = Some([status |-> 200,
                                         body |-> Some(Loaded(r, qClock, nulls)),
                                         from |-> "load"])]
  /\ qLoad' = [qLoad EXCEPT ![r] = "ok"]
  /\ qPc' = [qPc EXCEPT ![r] = "done"]
  /\ UNCHANGED <<qClock, qRoute, qAsked, routesFrame>>

\* GET /api/stations: the station-list fetch throws; catch: status 500
StationsLoadThrows(r) ==
  /\ r \in Requests
  /\ qPc[r] = "loading"
  /\ qRoute[r] = StationsKey
  /\ qSent' = [qSent EXCEPT ![r] = Some([status |-> 500, body |-> Null, from |-> "load"])]
  /\ qLoad' = [qLoad EXCEPT ![r] = "failed"]
  /\ qPc' = [qPc EXCEPT ![r] = "done"]
  /\ UNCHANGED <<qClock, qCache, qRoute, qAsked, routesFrame>>

\* refreshNveCache, called by GET /api/nve/latest: setCache at the end of
\* its try block
NveRefreshReturns(r) ==
  /\ r \in Requests
  /\ qPc[r] = "loading"
  /\ qRoute[r] = NveKey
  /\ qCache' = setCacheOf(qCache, NveKey, Loaded(r, qClock, FALSE), RouteTtlSec, qClock)
  /\ qLoad' = [qLoad EXCEPT ![r] = "ok"]
  /\ qPc' = [qPc EXCEPT ![r] = "reread"]
  /\ UNCHANGED <<qClock, qRoute, qAsked, qSent, routesFrame>>

\* refreshNveCache: a fetch throws; its catch block logs and returns
NveRefreshCatches(r) ==
  /\ r \in Requests
  /\ qPc[r] = "loading"
  /\ qRoute[r] = NveKey
  /\ qLoad' = [qLoad EXCEPT ![r] = "failed"]
  /\ qPc' = [qPc EXCEPT ![r] = "reread"]
  /\ UNCHANGED <<qClock, qCache, qRoute, qAsked, qSent, routesFrame>>

\* fresh = getCache(cacheKey) || []; res.json(fresh)
NveReread(r) ==
  /\ r \in Requests
  /\ qPc[r] = "reread"
  /\ LET got == getCacheOf(qCache, NveKey, qClock)
     IN  /\ qCache' = got.map
         /\ qSent' = [qSent EXCEPT ![r] = Some([status |-> 200, body |-> got.value,
                                                from |-> "reread"])]
  /\ qPc' = [qPc EXCEPT ![r] = "done"]
  /\ UNCHANGED <<qClock, qRoute, qLoad, qAsked, routesFrame>>

\* A prewarm timer fires (at startup and every ten minutes).
TimerFires(t) ==
  /\ t \in Timers
  /\ qPc[t] = "idle"
  /\ qPc' = [qPc EXCEPT ![t] = "loading"]
  /\ UNCHANGED <<qClock, qCache, qRoute, qLoad, qAsked, qSent, routesFrame>>

\* refreshStationsCache or refreshNveCache of a timer: setCache
PrewarmReturns(t) ==
  /\ t \in Timers
  /\ qPc[t] = "loading"
  /\ qCache' = setCacheOf(qCache, KeyOf(t), Loaded(t, qClock, FALSE), RouteTtlSec, qClock)
  /\ qPc' = [qPc EXCEPT ![t] = "idle"]
  /\ UNCHANGED <<qClock, qRoute, qLoad, qAsked, qSent, routesFrame>>

\* the catch block of the timer's refresh function: logs only
PrewarmCatches(t) ==
  /\ t \in Timers
  /\ qPc[t] = "loading"
  /\ qPc' = [qPc EXCEPT ![t] = "idle"]
  /\ UNCHANGED <<qClock, qCache, qRoute, qLoad, qAsked, qSent, routesFrame>>

NextRoutes ==
  \/ Tick
  \/ \E p \in Procs :
       \/ p \in Requests /\ Arrive(p)
       \/ \E nulls \in BOOLEAN : StationsLoadReturns(p, nulls)
       \/ StationsLoadThrows(p)
       \/ NveRefreshReturns(p)
       \/ NveRefreshCatches(p)
       \/ NveReread(p)
       \/ TimerFires(p)
       \/ PrewarmReturns(p)
       \/ PrewarmCatches(p)

SpecRoutes == InitRoutes /\ [][NextRoutes]_vars

----------------------------------------------------------------------------
(* Vocabulary of the properties.  The numbers are those of the statements, *)
(* in 1/10000 units: 0.5 degC = 5000, 5 mm = 50000, 20 mm = 200000.        *)

Done == pc = "done"
Res == Val(result)

\* The corrected temperature and the precipitation of input day i, as stated.
InTcorr(i) == series[i].T - 65 * (zGlacier - zStation)
InP(i) == IF series[i].P = Null THEN 0 ELSE series[i].P[1]

\* The input day that entry k of the returned history was computed from.
HistIndex(k) == Len(series) - Len(Res.history) + k

\* Q(day, i) for every day of the result: every history entry and today.
ForResultDays(Q(_, _)) ==
  Done =>
    /\ \A k \in 1..Len(Res.history) : Q(Res.history[k], HistIndex(k))
    /\ ~IsNull(Res.today) => Q(Val(Res.today), Len(series))

\* Q(day, i) for every day the map callback has emitted.
ForMappedDays(Q(_, _)) == \A i \in 1..Len(mapped) : Q(mapped[i], i)

InputNumeric == \A i \in 1..Len(series) : series[i].T \in Int

----------------------------------------------------------------------------
C1_SweBefore(i) == IF i = 1 THEN 0 ELSE Val(mapped[i - 1].SWE)

(* C1: snowpackBucket folds the series in input order with one accumulator *)
(* that starts at 0: on a day with Tcorr < 0.5 the accumulator becomes     *)
(* swe + P and no melt is subtracted; otherwise it becomes                 *)
(* max(swe - 3*max(Tcorr, 0), 0) and P is not added.  The SWE emitted for  *)
(* a day is the accumulator after that day's update, and the accumulator   *)
(* is carried unchanged into the next day.                                 *)
C1_BucketRecurrence ==
  /\ swe = IF Len(mapped) = 0 THEN 0 ELSE Val(mapped[Len(mapped)].SWE)
  /\ \A i \in 1..Len(mapped) :
       /\ mapped[i].date = series[i].date
       /\ Val(mapped[i].SWE) =
            IF InTcorr(i) < 5000
              THEN C1_SweBefore(i) + InP(i)
              ELSE Max(C1_SweBefore(i) - 3 * Max(InTcorr(i), 0), 0)

\* A snowfall day at 0.2 degC (melt 0.6 mm reported, none subtracted) that
\* adds 29 mm, then a day at 2 degC whose 29 mm are not added: 29 - 6 = 23 mm.
C1_Witness ==
  /\ Len(mapped) = 2
  /\ mapped[1].T = 2000 /\ mapped[1].Melt > 0 /\ Val(mapped[1].SWE) = 290000
  /\ mapped[2].T = 20000 /\ InP(2) = 290000 /\ Val(mapped[2].SWE) = 230000
  /\ swe = 230000

----------------------------------------------------------------------------
C2_RosDay(day, i) ==
  Val(day.ROS) = (InTcorr(i) > 5000 /\ InP(i) > 50000 /\ Val(day.SWE) > 200000)

(* C2: for every day snowpackBucket emits, ROS is true if and only if      *)
(* Tcorr > 0.5 and P > 5.0 and swe > 20.0, swe being the accumulator after *)
(* that day's update; ROS is false at Tcorr = 0.5, at P = 5.0 and at a     *)
(* post-update swe of 20.0.                                                *)
C2_RainOnSnow == ForMappedDays(C2_RosDay)

\* 29 mm of snow, then rain at 3 degC: the melt of 9 mm leaves exactly 20 mm,
\* so ROS is false although the snowpack before the update was above 20 mm.
C2_Witness ==
  /\ Len(mapped) = 2
  /\ Val(mapped[1].SWE) = 290000
  /\ mapped[2].T = 30000 /\ InP(2) = 290000
  /\ Val(mapped[2].SWE) = 200000
  /\ Val(mapped[2].ROS) = FALSE

----------------------------------------------------------------------------
C3_MeltDay(day, i) == day.Melt = Max(InTcorr(i) - 0, 0) * 3

(* C3: the Melt emitted for every day is max(Tcorr - 0, 0) * 3.0, on       *)
(* snowfall days too and also when the snowpack is depleted; the ice       *)
(* factor 7.0 is never applied by processGlacier.                          *)
C3_SnowFactorMelt == ForMappedDays(C3_MeltDay) /\ ForResultDays(C3_MeltDay)

\* The result holds a snowfall day (0.2 degC) with a positive Melt and a
\* melt day on a depleted snowpack (SWE 0) with Melt 3 * 3 degC.
C3_Witness ==
  /\ Done
  /\ Len(Res.history) = 2
  /\ Res.history[1].T = 2000 /\ Res.history[1].Melt = 6000
  /\ Res.history[2].T = 30000 /\ Val(Res.history[2].SWE) = 0
  /\ Res.history[2].Melt = 90000

----------------------------------------------------------------------------
C4_SweDay(day, i) == Val(day.SWE) >= 0

(* C4, as stated: for every series of numeric T and P and every pair of    *)
(* elevations, every day of the result (today and every history entry)     *)
(* has SWE >= 0.                                                           *)
C4_Original == ForResultDays(C4_SweDay)

C4_NoNegativeP == \A i \in 1..Len(series) : InP(i) >= 0

(* C4, amended: the same when no day of the series has a negative P.  On a *)
(* snowfall day the accumulator becomes swe + P with no floor, so a        *)
(* negative P makes SWE negative.                                          *)
C4_SweFloor == C4_NoNegativeP => ForResultDays(C4_SweDay) /\ ForMappedDays(C4_SweDay)

\* 5 mm of snow, then 3 degC: 5 - 9 is floored to 0.
C4_Witness ==
  /\ Done /\ C4_NoNegativeP
  /\ Len(Res.history) = 2
  /\ Val(Res.history[1].SWE) = 50000
  /\ Res.history[2].Melt = 90000
  /\ Val(Res.history[2].SWE) = 0
  /\ Val(Val(Res.today).SWE) = 0

----------------------------------------------------------------------------
C5_MeltDay(day, i) == day.Melt >= 0 /\ (day.Melt = 0 <=> InTcorr(i) <= 0)

(* C5: for every series of numeric T and every pair of elevations, every   *)
(* day processGlacier emits has Melt >= 0, and Melt = 0 exactly when       *)
(* Tcorr <= 0.                                                             *)
C5_MeltNonNegative == InputNumeric => ForResultDays(C5_MeltDay)

\* A day at exactly 0 degC (Melt 0), then a day at 0.2 degC (Melt > 0).
C5_Witness ==
  /\ Done
  /\ Len(Res.history) = 2
  /\ Res.history[1].T = 0 /\ Res.history[1].Melt = 0
  /\ Res.history[2].T = 2000 /\ Res.history[2].Melt > 0

----------------------------------------------------------------------------
C6_EveryDayHasP == \A i \in 1..Len(series) : ~IsNull(series[i].P)

(* C6: for a non-empty series in which every day carries both a            *)
(* temperature and a precipitation value, processGlacier returns           *)
(* dataQuality "full" and never a degraded tier.                           *)
C6_FullTier ==
  (Done /\ Len(series) > 0 /\ InputNumeric /\ C6_EveryDayHasP)
    => Res.dataQuality = "full"

\* Two days that both carry a precipitation value of 0 mm.
C6_Witness ==
  /\ Done
  /\ Len(series) = 2
  /\ series[1].P = Some(0) /\ series[2].P = Some(0)
  /\ Res.dataQuality = "full"

----------------------------------------------------------------------------
C7_NoDayHasP == \A i \in 1..Len(series) : IsNull(series[i].P)

C7_TempOnlyDay(day, i) ==
  /\ IsNull(day.SWE)
  /\ IsNull(day.ROS)
  /\ day.T = InTcorr(i)
  /\ day.Melt = 3 * Max(InTcorr(i), 0)

(* C7: for a non-empty series in which every day has a temperature and no  *)
(* day has a usable precipitation value, dataQuality is "temp-only" and    *)
(* SWE and ROS are null for every emitted day (today and every history     *)
(* entry), while T is lapse-corrected and Melt is the snow-factor          *)
(* degree-day melt.                                                        *)
C7_TempOnly ==
  (Done /\ Len(series) > 0 /\ InputNumeric /\ C7_NoDayHasP)
    => Res.dataQuality = "temp-only" /\ ForResultDays(C7_TempOnlyDay)

----------------------------------------------------------------------------
(* C8: for an empty series (and no single latest reading) processGlacier   *)
(* returns today = null, history = [] and dataQuality "none".              *)
C8_NoData ==
  (Done /\ Len(series) = 0)
    => IsNull(Res.today) /\ Res.history = << >> /\ Res.dataQuality = "none"

----------------------------------------------------------------------------
\* The highest-priority tier whose condition holds on the series.
C9_HighestTier ==
  IF Len(series) > 0 /\ ~C7_NoDayHasP THEN "full"
  ELSE IF Len(series) > 0 THEN "temp-only"
  ELSE "none"

(* C9: the tier is selected in the fixed priority order full, temp-only,   *)
(* today-only, none: the reported dataQuality is always the highest-       *)
(* priority tier whose condition holds on the available data.  The series  *)
(* is the only data processGlacier receives (it has no parameter for a     *)
(* single latest reading), so the tiers it could tell apart are full (a    *)
(* non-empty series with a precipitation value on some day), temp-only (a  *)
(* non-empty series with none) and none (an empty series).                 *)
C9_TierPriority == Done => Res.dataQuality = C9_HighestTier

----------------------------------------------------------------------------
C10_Increasing(h) == \A k \in 1..(Len(h) - 1) : h[k].date < h[k + 1].date

(* C10, as stated: in every result of processGlacier the dates of history  *)
(* are strictly increasing, with no duplicates.                            *)
C10_Original == Done => C10_Increasing(Res.history)

(* C10, amended: the same when the dates of the input series are strictly  *)
(* increasing.  processGlacier neither sorts the series nor removes        *)
(* duplicate dates: history keeps the order of its input.                  *)
C10_MonotonicDates == (Done /\ C10_Increasing(series)) => C10_Increasing(Res.history)

\* A series in date order longer than 14 days, cut to its last 14.
C10_Witness ==
  /\ Done
  /\ C10_Increasing(series)
  /\ Len(series) > 14
  /\ Len(Res.history) = 14
  /\ Res.history[1].date = Len(series) - 13
  /\ Res.history[14].date = Len(series)

----------------------------------------------------------------------------
C11_Min(a, b) == IF a <= b THEN a ELSE b

(* C11: for a series of n days, history has exactly min(n, 14) entries,    *)
(* which are the last min(n, 14) simulated days in input order (their SWE  *)
(* carrying the accumulation of the earlier, truncated days), and today is *)
(* the last entry of history when n > 0 and null when n = 0.               *)
C11_LastDays ==
  Done =>
    LET n == Len(series)
        h == Res.history
    IN  /\ Len(mapped) = n
        /\ Len(h) = C11_Min(n, 14)
        /\ \A k \in 1..Len(h) :
             /\ h[k] = mapped[n - Len(h) + k]
             /\ h[k].date = series[n - Len(h) + k].date
        /\ Res.today = IF n > 0 THEN Some(h[Len(h)]) ELSE Null

\* 15 snowfall days of 5 mm: the first is cut, and the first entry of history
\* is day 2 with the 10 mm accumulated over days 1 and 2.
C11_Witness ==
  /\ Done
  /\ Len(series) = 15
  /\ Len(Res.history) = 14
  /\ Res.history[1].date = 2
  /\ Val(Res.history[1].SWE) = 100000
  /\ Val(Val(Res.today).SWE) = 750000

----------------------------------------------------------------------------
C12_SweBefore(i) == IF i = 1 THEN 0 ELSE Val(mapped[i - 1].SWE)

C12_CorrectedDay(day, i) ==
  LET raw == series[i].T
      Tcorr == raw + (-65) * (zGlacier - zStation)
  IN  /\ day.T = Tcorr
      /\ (Tcorr < 5000) => Val(day.SWE) = C12_SweBefore(i) + InP(i)
      /\ (Tcorr >= 5000) => Val(day.SWE) = Max(C12_SweBefore(i) - 3 * Tcorr, 0)
      /\ day.Melt = IF Tcorr > 0 THEN 3 * Tcorr ELSE 0
      /\ Val(day.ROS) => Tcorr > 5000
      /\ (zGlacier = zStation) => day.T = raw

(* C12: for every emitted day the T field is the corrected temperature     *)
(* Tcorr = T_station + (-0.0065) * (zGlacier - zStation), overwriting the  *)
(* station temperature; the snow/rain branch, Melt and ROS are decided on  *)
(* Tcorr and never on the raw station temperature; and when zGlacier =     *)
(* zStation the emitted T is the raw station temperature exactly.          *)
C12_LapseCorrection == ForMappedDays(C12_CorrectedDay)

\* A glacier 1000 m above the station: 3 degC at the station is -3.5 degC on
\* the glacier, so the 29 mm fall as snow and no melt is reported.
C12_Witness ==
  /\ Len(mapped) = 1
  /\ zGlacier - zStation = 1000
  /\ series[1].T = 30000 /\ series[1].P = Some(290000)
  /\ mapped[1].T = -35000
  /\ mapped[1].Melt = 0
  /\ Val(mapped[1].SWE) = 290000

----------------------------------------------------------------------------
(* C14: in every result glacier_id is the glacierId argument, and          *)
(* glacier_name is the glacierName argument when it is non-empty and       *)
(* glacierId when glacierName is empty or absent.                          *)
C14_Identifiers ==
  Done =>
    /\ Res.glacier_id = glacierId
    /\ glacName # "" => Res.glacier_name = glacName
    /\ glacName = "" => Res.glacier_name = glacierId

\* A call without a name: glacier_name falls back to the id.
C14_Witness ==
  /\ Done
  /\ glacName = ""
  /\ glacierId = "675"
  /\ Res.glacier_name = "675"

----------------------------------------------------------------------------
C13_DaySeries == \A i \in 1..Len(series) : DOMAIN series[i] # {}

C13_Fields == {"glacier_id", "glacier_name", "today", "history", "dataQuality"}

(* C13: processGlacier never throws for any daily series, including an     *)
(* empty series, a series with missing dates and days whose T or P is null *)
(* or absent: it always returns a result object with exactly the fields    *)
(* glacier_id, glacier_name, today, history and dataQuality.  (A daily     *)
(* series is an array of day objects.)                                     *)
C13_NeverThrows ==
  C13_DaySeries =>
    /\ pc \in {"map", "done"}
    /\ pc = "map" => IsNull(result) /\ Len(mapped) <= Len(series)
    /\ pc = "done" => DOMAIN Res = C13_Fields /\ Len(mapped) = Len(series)

\* A day without T and without P, then a day with a null T: the call returns,
\* with T, Melt and SWE of the first day NaN and the SWE of today NaN.
C13_Witness ==
  /\ pc = "done"
  /\ Len(series) = 2
  /\ "T" \notin DOMAIN series[1] /\ "Tnull" \notin DOMAIN series[1]
  /\ IsNull(series[1].P)
  /\ "Tnull" \in DOMAIN series[2]
  /\ Res.history[1].T = NaN /\ Res.history[1].Melt = NaN
  /\ Val(Val(Res.today).SWE) = NaN
  /\ Val(Val(Res.today).ROS) = FALSE

----------------------------------------------------------------------------
(* C16: processGlacier has no side effects on its inputs: the input series *)
(* keeps its length and order and every input day keeps its date, T and P  *)
(* (the corrected temperature, Melt, SWE and ROS are written only to new   *)
(* output objects).                                                        *)
C16_InputsUnchanged ==
  [][/\ series' = series
     /\ zGlacier' = zGlacier /\ zStation' = zStation
     /\ glacierId' = glacierId /\ glacName' = glacName]_vars

\* The call has returned a day whose T was corrected to -3.5 degC while the
\* input day still holds the 3 degC of the station and has no output field.
C16_Witness ==
  /\ Done
  /\ Len(series) = 1
  /\ series[1].T = 30000
  /\ DOMAIN series[1] = {"date", "T", "P"}
  /\ Val(Res.today).T = -35000
  /\ Res.history[1].T = -35000

----------------------------------------------------------------------------
C17_AbsentPDay(day, i) ==
  IsNull(series[i].P) =>
    /\ InTcorr(i) < 5000 => Val(day.SWE) = C12_SweBefore(i)
    /\ Val(day.ROS) = FALSE
    /\ day.P = Some(0)

(* C17: a day whose precipitation is absent (undefined or null) is treated *)
(* as P = 0: on a snowfall-branch day swe is left unchanged, ROS is false  *)
(* for that day, and the day is emitted with its P field equal to 0.       *)
C17_AbsentPrecipitation == ForMappedDays(C17_AbsentPDay)

----------------------------------------------------------------------------
\* processGlacier run alone: the fold of snowpackBucket from swe = 0.
RECURSIVE C15_BucketFrom(_, _, _, _, _)
C15_BucketFrom(ser, zG, zS, s, out) ==
  IF Len(out) = Len(ser) THEN out
  ELSE LET d == ser[Len(out) + 1]
           Tcorr == TcorrOf(d, zG, zS)
           s2 == SweAfter(s, Tcorr, PrecipOf(d))
       IN  C15_BucketFrom(ser, zG, zS, s2, Append(out, EmittedDay(d, Tcorr, s2)))

C15_RunAlone(c) ==
  GlacierResult("2289", "",
                C15_BucketFrom(c.series, c.zGlacier, c.zStation, 0, << >>))

(* C15: overlapping invocations of processGlacier are independent: each    *)
(* owns its swe accumulator, no state written by one is read by another,   *)
(* and under every interleaving each invocation's result is the result of  *)
(* running it alone on the same arguments.                                 *)
C15_Independent ==
  \A c \in Callers :
    /\ calls[c].pc = "done" => Val(calls[c].result) = C15_RunAlone(calls[c])
    /\ (calls[c].pc = "map" /\ Len(calls[c].mapped) > 0)
         => cells[c] = Val(calls[c].mapped[Len(calls[c].mapped)].SWE)
    /\ (calls[c].pc = "map" /\ Len(calls[c].mapped) = 0) => cells[c] = 0

\* Call 1 is between its two snowfall days (5 mm so far) when call 2, entered
\* later, has already returned; call 2 saw 5 mm of snow and 9 mm of melt.
C15_Witness ==
  /\ calls[1].pc = "map" /\ Len(calls[1].mapped) = 1 /\ Len(calls[1].series) = 2
  /\ cells[1] = 50000
  /\ calls[2].pc = "done"
  /\ Len(Val(calls[2].result).history) = 2
  /\ Val(Val(calls[2].result).history[1].SWE) = 50000
  /\ Val(Val(Val(calls[2].result).today).SWE) = 0

----------------------------------------------------------------------------
\* The input is one of the named cases: no response, a response without
\* data, or rows none of which has observations (no rows included).
C20_EmptyOrWithout ==
  IF IsNull(rFrost) THEN TRUE
  ELSE IF IsNull(Val(rFrost).data) THEN TRUE
  ELSE \A i \in 1..Len(DataOf(rFrost)) :
         /\ DOMAIN DataOf(rFrost)[i] # {}
         /\ IsNull(DataOf(rFrost)[i].observations)

C20_EmptyResult(out) ==
  /\ ~out.threw
  /\ out.fn = "toSeries" => out.value = EmptySeries
  /\ out.fn \in {"reduceLatest", "reduceLatestOfHistory"} => out.value = EmptyLatest
  /\ out.fn = "sumPrecipitationHourly" => out.value.value = 0

(* C20: toSeries, reduceLatest and sumPrecipitationHourly do not throw on  *)
(* a null/undefined response, a response without data, or rows without     *)
(* observations; they return the empty result (no series, no latest entry, *)
(* precipitation sum 0).                                                   *)
C20_NeverThrows ==
  (~IsNull(rOut) /\ C20_EmptyOrWithout) => C20_EmptyResult(Val(rOut))

\* toSeries has returned for a response whose two rows have no observations.
C20_Witness ==
  /\ ~IsNull(rOut) /\ ~IsNull(rFrost)
  /\ Len(DataOf(rFrost)) = 2
  /\ C20_EmptyOrWithout
  /\ Val(rOut).fn = "toSeries" /\ ~Val(rOut).threw

----------------------------------------------------------------------------
\* The calendar date (UTC) of a time, as a day number.
C18_DateOf(time) == Parse(time) \div 24

\* The sum of the precipitation readings of the response whose time is of the date.
RECURSIVE C18_SumOnDate(_, _)
C18_SumOnDate(vs, date) ==
  IF Len(vs) = 0 THEN 0
  ELSE (IF Head(vs).ob.elementId = PT1H /\ C18_DateOf(ObsTime(Head(vs))) = date
        THEN ValueOr0(Head(vs).ob.value) ELSE 0)
       + C18_SumOnDate(Tail(vs), date)

C18_Daily == Val(Val(oReply).latest[P1D])

(* C18: the daily precipitation value reduced from the raw observations is *)
(* the sum of the readings whose timestamp is of the value's calendar date *)
(* (UTC), and of no reading of another date in the fetched window.         *)
C18_DailyPrecipitation ==
  oPc = "hourlySum" =>
    C18_Daily.value = Some(C18_SumOnDate(Visited(DataOf(oFrost)), C18_DateOf(C18_Daily.time)))

----------------------------------------------------------------------------
\* The raw records of element el, over the responses of all intervals.
C19_Input(el) ==
  UNION { { Visited(DataOf(hChunks[k]))[i].ob :
              i \in { j \in 1..Len(Visited(DataOf(hChunks[k]))) :
                        Visited(DataOf(hChunks[k]))[j].ob.elementId = el } } :
          k \in Chunks }

C19_Series(el) == Val(Val(hReply).series[el])

(* C19: the series the history request answers with is, for any order of   *)
(* the input and of the intervals' completion, ascending by time, without  *)
(* two entries of the same time key (the time string), and has an entry    *)
(* only for a time (and value) present in the input, one for every such    *)
(* time: nothing is filled in.                                             *)
C19_SortedDistinctUnfilled ==
  hPc = "done" =>
    \A el \in HistElements :
      /\ \A i, j \in 1..Len(C19_Series(el)) :
           i < j => /\ Parse(C19_Series(el)[i].time) <= Parse(C19_Series(el)[j].time)
                    /\ C19_Series(el)[i].time # C19_Series(el)[j].time
      /\ \A i \in 1..Len(C19_Series(el)) :
           \E ob \in C19_Input(el) :
             ob.time = C19_Series(el)[i].time /\ ob.value = C19_Series(el)[i].value
      /\ \A ob \in C19_Input(el) :
           \E i \in 1..Len(C19_Series(el)) : C19_Series(el)[i].time = ob.time

\* The first interval's response is out of time order (3, 1), the second
\* repeats instant 3 and adds instant 2; the answer has the three instants.
C19_Witness ==
  /\ hPc = "done"
  /\ Len(Visited(DataOf(hChunks[1]))) = 2
  /\ Parse(Visited(DataOf(hChunks[1]))[1].ob.time) = 3
  /\ Len(Visited(DataOf(hChunks[2]))) = 2
  /\ Parse(Visited(DataOf(hChunks[2]))[1].ob.time) = 3
  /\ Len(C19_Series(AIR)) = 3
  /\ Parse(C19_Series(AIR)[1].time) = 1
  /\ Parse(C19_Series(AIR)[3].time) = 3

----------------------------------------------------------------------------
C24_AllSnowfall == \A j \in 1..Len(series) : InTcorr(j) < 5000

RECURSIVE C24_SumP(_)
C24_SumP(i) == IF i = 0 THEN 0 ELSE C24_SumP(i - 1) + InP(i)

C24_SweOf(i) == IF i = 0 THEN 0 ELSE Val(mapped[i].SWE)

(* C24: in a series whose every day has Tcorr < 0.5 the SWE emitted on day *)
(* i is the sum of P over days 1..i, it does not decrease when every P is  *)
(* >= 0, ROS is false every day, Melt is 0 on every day with Tcorr <= 0;   *)
(* with P = 0 every day SWE is 0 throughout, and dataQuality is "full".    *)
C24_SnowfallOnly ==
  C24_AllSnowfall =>
    /\ \A i \in 1..Len(mapped) :
         /\ C24_SweOf(i) = C24_SumP(i)
         /\ (\A j \in 1..Len(series) : InP(j) >= 0) => C24_SweOf(i) >= C24_SweOf(i - 1)
         /\ mapped[i].ROS = Some(FALSE)
         /\ InTcorr(i) <= 0 => mapped[i].Melt = 0
         /\ (\A j \in 1..Len(series) : InP(j) = 0) => C24_SweOf(i) = 0
    /\ Done => Res.dataQuality = "full"

\* Fifteen days at 0 degC with 5 mm each: 75 mm of snow on the last day,
\* more than the 20 mm and the 5 mm that rain-on-snow asks for.
C24_Witness ==
  /\ Done
  /\ C24_AllSnowfall
  /\ Len(mapped) = 15
  /\ C24_SweOf(15) = 750000
  /\ mapped[15].ROS = Some(FALSE)

----------------------------------------------------------------------------
\* The latest setCache of the key that getCache was just called with.
C21_LastSet == cLastSet[Val(cGot).key]

C21_Fresh ==
  /\ ~IsNull(C21_LastSet)
  /\ cClock - Val(C21_LastSet).t <= Val(C21_LastSet).ttlSec * 1000

(* C21: getCache(k) returns the data of the most recent setCache(k, v,     *)
(* ttlSec) if and only if there is one and at most ttlSec*1000 ms have     *)
(* passed since; otherwise it returns null and no entry of k is left in    *)
(* the map.  An expired value is never returned; a key never set gives     *)
(* null.                                                                   *)
C21_GetCache ==
  ~IsNull(cGot) =>
    IF C21_Fresh
      THEN Val(cGot).value = Some(Val(C21_LastSet).data)
      ELSE /\ Val(cGot).value = Null
           /\ IsNull(cMap[Val(cGot).key])

\* An entry set at 0 with a ttl of 1 s is read at 1500 ms: null, and the
\* entry is gone, while the other key still holds its entry.
C21_Witness ==
  /\ ~IsNull(cGot)
  /\ Val(cGot).key = "stations" /\ Val(cGot).value = Null
  /\ cLastSet["stations"] = Some([t |-> 0, ttlSec |-> 1, data |-> "x"])
  /\ cClock = 1500
  /\ IsNull(cMap["stations"])
  /\ ~IsNull(cMap["nve"])

----------------------------------------------------------------------------
\* The observations of element el, in the order of the response.
C27_Of(el) == SelectSeq(Visited(DataOf(rFrost)), LAMBDA v : v.ob.elementId = el)

\* The first of them whose timestamp (its time, else its row's
\* referenceTime) no other exceeds.
C27_Latest(el) ==
  LET obs == C27_Of(el)
      i == CHOOSE i \in 1..Len(obs) :
             /\ \A j \in 1..Len(obs) : Parse(ObsTime(obs[j])) <= Parse(ObsTime(obs[i]))
             /\ \A j \in 1..(i - 1) : Parse(ObsTime(obs[j])) < Parse(ObsTime(obs[i]))
  IN  [value |-> obs[i].ob.value, unit |-> obs[i].ob.unit, time |-> ObsTime(obs[i])]

C27_Returned(fn) == ~IsNull(rOut) /\ Val(rOut).fn = fn /\ ~Val(rOut).threw

C27_IsLatest(latest) ==
  \A el \in ElementIds :
    IF Len(C27_Of(el)) = 0 THEN IsNull(latest[el])
    ELSE latest[el] = Some(C27_Latest(el))

(* C27: reduceLatest (of server.js and of part_004) returns for each       *)
(* element of the response the value, unit and time of the observation     *)
(* with the latest timestamp, the row's referenceTime standing in for a    *)
(* missing time, whatever the order of rows and observations; among        *)
(* observations that share the latest timestamp the first one is kept.     *)
C27_LatestByTimestamp ==
  (C27_Returned("reduceLatest") \/ C27_Returned("reduceLatestOfHistory"))
    => C27_IsLatest(Val(rOut).value)

----------------------------------------------------------------------------
C23_NoDataIsEmpty(out) ==
  /\ fResp.status = 412 => (~out.threw /\ DataOf(out.value) = << >>)
  /\ (~Ok(fResp.status) /\ fResp.status # 412) => out.threw

(* C23: on status 412 frostJson (of server.js and of part_004) returns an  *)
(* empty data list instead of throwing; on every other non-OK status it    *)
(* throws.                                                                 *)
C23_DataAbsence == ~IsNull(fOut) => C23_NoDataIsEmpty(Val(fOut))

----------------------------------------------------------------------------
C22_SomeFetchThrew == \E i \in 1..Len(wRequests) : wRequests[i].threw

(* C22: when an upstream fetch made by GET /api/observations/:stationId    *)
(* throws, the handler has sent exactly one response, with a success       *)
(* status and the body {stationId, latest: {}}; and however the fetches    *)
(* end, a handler that has finished has answered exactly once, and one     *)
(* that has not finished has not answered yet and can take a step.         *)
C22_FailuresAnswered ==
  wKind \in {"observations", "observations24"} =>
    /\ C22_SomeFetchThrew =>
         /\ wPc = "caught"
         /\ wSent = 1
         /\ wOut = Some([status |-> 200, body |-> [stationId |-> "SN1", latest |-> EmptyLatest]])
    /\ wPc \in {"done", "caught"} => wSent = 1
    /\ wPc \in {"narrow", "wide"} => (wSent = 0 /\ ENABLED NextWiden)

\* The 24-hour request returned nothing, the 48-hour request failed with
\* status 500, and the handler has answered.
C22_Witness ==
  /\ wKind = "observations"
  /\ Len(wRequests) = 2 /\ ~wRequests[1].threw /\ wRequests[2].threw
  /\ wUpstream.wide.status = 500
  /\ wPc = "caught" /\ wSent = 1

C25_NarrowWasEmpty ==
  NoKeys(Reduced(wKind, frostJson(wUpstream.narrow).value, EmptyOf(wKind)))

(* C25: in fetchLatestBatch (12 h, then 24 h) and in GET                   *)
(* /api/observations/:stationId of part_001 (24 h, then 48 h) the narrow   *)
(* window is requested first; the wide one only after the narrow request   *)
(* returned with no reading, never after a non-empty result or a failure;  *)
(* at most two requests are made; and a non-empty narrow result is the     *)
(* result of the call, unchanged.                                          *)
C25_WideningWindow ==
  wKind \in {"observations", "batch"} =>
    /\ Len(wRequests) <= 2
    /\ Len(wRequests) >= 1 => wRequests[1].hours = NarrowHours(wKind)
    /\ Len(wRequests) = 2 =>
         /\ wRequests[2].hours = WideHours(wKind)
         /\ wRequests[1].hours < wRequests[2].hours
         /\ ~wRequests[1].threw
         /\ C25_NarrowWasEmpty
    /\ (wPc = "done" /\ ~C25_NarrowWasEmpty) =>
         /\ Len(wRequests) = 1
         /\ wOut = Some(Answer(wKind, Reduced(wKind, wUpstream.narrow.body, EmptyOf(wKind))))

\* fetchLatestBatch: the 12-hour response has a row without air temperature
\* only, the 24-hour response has a reading for SN1, which is returned.
C25_Witness ==
  /\ wKind = "batch"
  /\ wPc = "done"
  /\ Len(wRequests) = 2
  /\ wUpstream.narrow.status = 200 /\ Len(DataOf(wUpstream.narrow.body)) = 1
  /\ ~IsNull(Val(wOut)["SN1"])
  /\ IsNull(Val(wOut)["SN2"])

----------------------------------------------------------------------------
RECURSIVE C26_Concat(_)
C26_Concat(lists) == IF Len(lists) = 0 THEN << >> ELSE Head(lists) \o C26_Concat(Tail(lists))

C26_N == Len(Val(sStations))

\* The batch that station id is sent in, and whether its response has a
\* reading for id.
C26_BatchOf(id) == ((id - 1) \div 50) + 1
C26_HasReading(id) ==
  LET b == C26_BatchOf(id)
      first == (b - 1) * 50 + 1
      last == IF b * 50 < C26_N THEN b * 50 ELSE C26_N
  IN  \/ sAnswers[b] = "every"
      \/ sAnswers[b] = "first" /\ id = first
      \/ sAnswers[b] = "last" /\ id = last

(* C26: on a cache miss GET /api/stations sends every station id of the    *)
(* list in exactly one batch of at most 50 ids, the batches in list order  *)
(* and one after another; the response has one entry per station in the    *)
(* order of the list, with latestTemperature the reading returned for the  *)
(* station's id, or null when none was returned; a batch whose fetch fails *)
(* gives null for its stations without failing the response or the other   *)
(* batches.                                                                *)
C26_Batches ==
  (sPc \in {"batch", "done"} /\ Len(sRequests) > 0) =>
    /\ \A b \in 1..Len(sRequests) : Len(sRequests[b]) >= 1 /\ Len(sRequests[b]) <= 50
    /\ C26_Concat(sRequests) = [k \in 1..Len(C26_Concat(sRequests)) |-> k]
    /\ sPc = "batch" => /\ IsNull(sOut)
                        /\ Len(C26_Concat(sRequests)) = (IF sI + 50 < C26_N THEN sI + 50 ELSE C26_N)
    /\ sPc = "done" =>
         /\ Len(C26_Concat(sRequests)) = C26_N
         /\ Val(sOut).status = 200
         /\ Len(Val(sOut).body) = C26_N
         /\ \A id \in 1..C26_N :
              /\ Val(sOut).body[id].id = id
              /\ Val(sOut).body[id].latestTemperature =
                   IF C26_HasReading(id)
                     THEN Some([value |-> Some(id), unit |-> "degC", time |-> TimeStr(5, "ms")])
                     ELSE Null

\* Over 100 stations in three batches: the first batch fails,
\* the second has a reading for its last station only, the third for its
\* only station.
C26_Witness ==
  /\ sPc = "done"
  /\ Len(sRequests) = 3
  /\ Len(sRequests[3]) = C26_N - 100
  /\ sAnswers = <<"fails", "last", "every">>
  /\ IsNull(Val(sOut).body[1].latestTemperature)
  /\ IsNull(Val(sOut).body[51].latestTemperature)
  /\ ~IsNull(Val(sOut).body[100].latestTemperature)
  /\ ~IsNull(Val(sOut).body[C26_N].latestTemperature)

----------------------------------------------------------------------------
C30_N == IF IsNull(nIds) THEN 0 ELSE Len(Val(nIds))

\* The ids of the requests sent so far, in order.
RECURSIVE C30_IdsOf(_)
C30_IdsOf(requests) ==
  IF Len(requests) = 0 THEN << >> ELSE Head(requests).ids \o C30_IdsOf(Tail(requests))

\* The data of the responses to the requests sent, in order.
RECURSIVE C30_DataOf(_, _)
C30_DataOf(requests, b) ==
  IF b > Len(requests) THEN << >>
  ELSE LET ids == requests[b].ids
           part == CASE nAnswers[b] = "each" -> [k \in 1..Len(ids) |-> Datum(ids[k])]
                     [] nAnswers[b] = "first" -> <<Datum(ids[1])>>
                     [] OTHER -> << >>
       IN  part \o C30_DataOf(requests, b + 1)

C30_Result == IF nVia = "route" THEN Val(nOut).body ELSE Val(nOut)

(* C30: nveObservations returns [] without a request for an empty or       *)
(* missing list; makes one GET for one id; for n > 1 ids makes ceil(n/200) *)
(* POST requests one after another, each with a contiguous chunk of at     *)
(* most 200 ids, the chunks in order making up the list, and returns the   *)
(* chunk results concatenated in chunk order; a failing chunk request      *)
(* fails the whole call, with no partial data.                             *)
C30_Dispatch ==
  /\ nPc \in {"returned", "threw", "get", "post"} =>
       /\ C30_N = 0 => Len(nRequests) = 0 /\ nPc = "returned" /\ C30_Result = << >>
       /\ C30_N = 1 => /\ Len(nRequests) = 1
                       /\ nRequests[1] = [method |-> "GET", ids |-> Val(nIds)]
       /\ C30_N > 1 =>
            /\ \A b \in 1..Len(nRequests) :
                 /\ nRequests[b].method = "POST"
                 /\ Len(nRequests[b].ids) >= 1
                 /\ Len(nRequests[b].ids) <= 200
            /\ C30_IdsOf(nRequests) = SubSeq(Val(nIds), 1, Len(C30_IdsOf(nRequests)))
            /\ Len(nRequests) <= (C30_N + 199) \div 200
  /\ nPc = "returned" /\ C30_N >= 1 =>
       /\ Len(nRequests) = (IF C30_N = 1 THEN 1 ELSE (C30_N + 199) \div 200)
       /\ C30_IdsOf(nRequests) = Val(nIds)
       /\ C30_Result = C30_DataOf(nRequests, 1)
       /\ \A b \in 1..Len(nRequests) : nAnswers[b] # "fails"
  /\ nPc = "threw" =>
       /\ nAnswers[Len(nRequests)] = "fails"
       /\ nOut = Some(Failed)
  /\ nPc \in {"get", "post"} => IsNull(nOut) /\ nAnswers[Len(nRequests)] \in NvePatterns

\* Over 400 ids in three chunks, each answered with data.
C30_Witness ==
  /\ nPc = "returned"
  /\ C30_N > 400
  /\ Len(nRequests) = 3
  /\ Len(nRequests[3].ids) = C30_N - 400
  /\ nAnswers = <<"each", "first", "each">>
  /\ Len(C30_Result) = 201 + (C30_N - 400)

\* The second of three chunk requests fails after the first brought data.
C30_WitnessFails ==
  /\ nPc = "threw"
  /\ C30_N > 400
  /\ Len(nRequests) = 2
  /\ nAnswers[1] = "each"
  /\ Len(nAllData) = 200

----------------------------------------------------------------------------
\* The calls that went through api().
C28_Started == {c \in ClientCalls : kPc[c] \notin {"new", "cached"}}

\* At most one request started through api() is un-aborted at any time,
\* and it is the one of the latest call.
C28_OneUnaborted ==
  /\ Cardinality(C28_Started \ kAborted) <= 1
  /\ \A c \in C28_Started \ kAborted : controller = Some(c)

\* fetchStations stores stationCache only when its own request completed
\* with an array; an aborted or failed fetchStations stores nothing.
C28_StationCache ==
  /\ \A c \in kStored : /\ kKind[c] = "fetchStations"
                        /\ kPc[c] = "returned"
                        /\ kData[c] = Some("array")
                        /\ c \notin kCut
  /\ ~IsNull(stationCache) <=> kStored # {}
  /\ stationCache \in {Null, Some("array")}

\* A call cut while waiting for fetch() or for res.json() rejects with an
\* AbortError.
C28_CutInFetchOrJson ==
  \A c \in kCut : (kPc[c] \in Settled /\ kPc[c] # "httpError") => kPc[c] = "AbortError"

(* C28: in the client module at most one request started through api() is  *)
(* un-aborted at any time; a previous call still in flight when the next   *)
(* call aborts its controller rejects with an AbortError, not with a       *)
(* generic error; and fetchStations stores stationCache only when its own  *)
(* request completed with an array.                                        *)
C28_SingleFlight ==
  /\ C28_OneUnaborted
  /\ \A c \in kCut : kPc[c] \in Settled => kPc[c] = "AbortError"
  /\ C28_StationCache

----------------------------------------------------------------------------
\* The requests answered, and those answered after their own load failed.
C29_Answered == {r \in Requests : ~IsNull(qSent[r])}
C29_LoadFailed == {r \in C29_Answered : qLoad[r] = "failed"}

\* A value of the cache for key, made by a load completed at most TTL ago.
C29_FreshFor(key, body) ==
  /\ ~IsNull(body)
  /\ Val(body).key = key
  /\ Val(body).at <= qClock
  /\ qClock - Val(body).at <= RouteTtlSec * 1000

\* A cache hit is answered from the cache with no upstream request, and
\* every value served from the cache comes from a completed load within
\* its TTL at the time it is served.
C29_Hits ==
  \A r \in Requests :
    (IsNull(qSent[r]) /\ ~IsNull(qSent'[r]) /\ Val(qSent'[r]).from \in {"hit", "reread"}) =>
      /\ Val(qSent'[r]).from = "hit" => r \notin qAsked' /\ C29_FreshFor(qRoute[r], Val(qSent'[r]).body)
      /\ ~IsNull(Val(qSent'[r]).body) => C29_FreshFor(qRoute[r], Val(qSent'[r]).body)

\* An entry is written only by the step in which a load returns, with the
\* value of that load (also one whose temperatures are all null); an entry
\* is removed only by a read that finds it expired; every other step, a
\* failing load among them, leaves every entry as it is.
C29_Writes ==
  \A k \in RouteKeys :
    qCache'[k] # qCache[k] =>
      \/ /\ ~IsNull(qCache'[k])
         /\ Val(qCache'[k]) = [t |-> qClock, ttlMs |-> RouteTtlSec * 1000,
                               data |-> Val(qCache'[k]).data]
         /\ Val(qCache'[k]).data.key = k
         /\ Val(qCache'[k]).data.at = qClock
         /\ \E p \in Procs : /\ KeyOf(p) = k
                             /\ qPc[p] = "loading"
                             /\ qPc'[p] # "loading"
                             /\ p \in Requests => qLoad'[p] = "ok"
      \/ /\ IsNull(qCache'[k])
         /\ Expired(Val(qCache[k]), qClock)
         /\ \E r \in Requests : qRoute[r] = k /\ qPc[r] \in {"new", "reread"} /\ qPc'[r] # qPc[r]

\* The step in which the load of a request fails changes no cache entry.
C29_FailedLoadFrame ==
  \A r \in Requests : (qLoad[r] = "none" /\ qLoad'[r] = "failed") => qCache' = qCache

\* The response after a failed load, as the claim has it: an error or an
\* empty response.
C29_ErrorOrEmpty ==
  \A r \in C29_LoadFailed : IsNull(Val(qSent[r]).body)

\* The response after a failed load, as the code has it: GET /api/stations
\* sends status 500; GET /api/nve/latest sends what the cache holds for the
\* key at that time, the value another load stored meanwhile or else the
\* empty list.
C29_ErrorOrCache ==
  \A r \in C29_LoadFailed :
    IF qRoute[r] = StationsKey
      THEN Val(qSent[r]).status = 500 /\ IsNull(Val(qSent[r]).body)
      ELSE /\ Val(qSent[r]).status = 200
           /\ Val(qSent[r]).from = "reread"
           /\ ~IsNull(Val(qSent[r]).body) =>
                /\ Val(Val(qSent[r]).body).key = NveKey
                /\ Val(Val(qSent[r]).body).at <= qClock

(* C29 as stated: for the cached station routes, under any interleaving of *)
(* requests and prewarm timers, a cache hit is answered from the cache     *)
(* with no upstream request; an entry is written only after a load whose   *)
(* station-list fetch succeeded; a failed load sends an error or empty     *)
(* response and leaves every cache entry unchanged; every value served     *)
(* from the cache comes from an earlier completed load within its TTL.     *)
C29_Original ==
  /\ [][C29_Hits /\ C29_Writes /\ C29_FailedLoadFrame]_vars
  /\ []C29_ErrorOrEmpty

(* C29 amended: the same, except that after a failed load GET /api/stations *)
(* sends status 500 and GET /api/nve/latest sends what the cache holds for  *)
(* its key at that time: the value another load stored meanwhile, or else   *)
(* the empty list.                                                          *)
C29_CachedRoutes ==
  /\ [][C29_Hits /\ C29_Writes /\ C29_FailedLoadFrame]_vars
  /\ []C29_ErrorOrCache

\* The refresh of a GET /api/nve/latest request failed after the timer's
\* refresh had stored a value, and the request was answered with that value.
C29_Witness ==
  \E r \in C29_LoadFailed :
    /\ qRoute[r] = NveKey
    /\ ~IsNull(Val(qSent[r]).body)
    /\ qCache[NveKey] # Null

\* A GET /api/stations request was answered from an entry whose
\* temperatures are all null, without an upstream request.
C29_WitnessNulls ==
  \E r \in C29_Answered :
    /\ Val(qSent[r]).from = "hit"
    /\ r \notin qAsked
    /\ Val(Val(qSent[r]).body).nulls

====
